---- MODULE Spec2Model ----
(***************************************************************************)
(* Verification model of thurin-core's SDK: the HPKE receiver              *)
(* (credential/hpke.ts), the fixed-schema credential parser                *)
(* (credential/request.ts, credential/parse.ts) and the witness builder    *)
(* (prover/prover.ts).                                                     *)
(*                                                                         *)
(* Byte strings are sequences of integers 0..255.  JavaScript values that  *)
(* come out of the CBOR decoder are tagged tuples:                         *)
(*   <<"undef">>, <<"int", n>>, <<"bool", b>>, <<"str", codePoints>>,      *)
(*   <<"bytes", byteSeq>>.                                                 *)
(* Outcomes of operations are records [st, code, val] with st "ok" or      *)
(* "err"; code is the CredentialError code of a failure.                   *)
(***************************************************************************)
EXTENDS Integers, Sequences, FiniteSets, TLC

(***************************************************************************)
(* Protocol widths and offsets fixed in the source.                        *)
(***************************************************************************)
MSO_LEN == 512
SIG_LEN == 64
AGE_CLAIM_LEN == 96
STATE_CLAIM_LEN == 107
DOC_NUMBER_LEN == 32
PUBKEY_LEN == 32
FIELD_LEN == 32
STATE_CODE_OFFSET == 66

(***************************************************************************)
(* Bounds of the model.                                                    *)
(***************************************************************************)
MaxSuffix == 2
MaxSlack == 1
MaxTime == 2

(***************************************************************************)
(* ASCII of the strings the source compares against or encodes.            *)
(***************************************************************************)
S_digestID == <<100, 105, 103, 101, 115, 116, 73, 68>>
S_random == <<114, 97, 110, 100, 111, 109>>
S_elementIdentifier == <<101, 108, 101, 109, 101, 110, 116, 73, 100, 101, 110, 116, 105, 102, 105, 101, 114>>
S_elementValue == <<101, 108, 101, 109, 101, 110, 116, 86, 97, 108, 117, 101>>
S_age_over_21 == <<97, 103, 101, 95, 111, 118, 101, 114, 95, 50, 49>>
S_age_over_18 == <<97, 103, 101, 95, 111, 118, 101, 114, 95, 49, 56>>
S_issuing_jurisdiction == <<105, 115, 115, 117, 105, 110, 103, 95, 106, 117, 114, 105, 115, 100, 105, 99, 116, 105, 111, 110>>
S_document_number == <<100, 111, 99, 117, 109, 101, 110, 116, 95, 110, 117, 109, 98, 101, 114>>
S_true == <<116, 114, 117, 101>>
S_false == <<102, 97, 108, 115, 101>>
S_HPKE_v1 == <<72, 80, 75, 69, 45, 118, 49>>
S_HPKE == <<72, 80, 75, 69>>
S_KEM == <<75, 69, 77>>
S_eae_prk == <<101, 97, 101, 95, 112, 114, 107>>
S_shared_secret == <<115, 104, 97, 114, 101, 100, 95, 115, 101, 99, 114, 101, 116>>
S_psk_id_hash == <<112, 115, 107, 95, 105, 100, 95, 104, 97, 115, 104>>
S_info_hash == <<105, 110, 102, 111, 95, 104, 97, 115, 104>>
S_secret == <<115, 101, 99, 114, 101, 116>>
S_key == <<107, 101, 121>>
S_base_nonce == <<98, 97, 115, 101, 95, 110, 111, 110, 99, 101>>
S_BrowserHandoverv1 ==
    <<66, 114, 111, 119, 115, 101, 114, 72, 97, 110, 100, 111, 118, 101, 114, 118, 49>>
S_origin == <<111, 114, 105, 103, 105, 110>>
S_publicKey == <<112, 117, 98, 108, 105, 99, 75, 101, 121>>
ORIGIN_LOCAL == <<104, 116, 116, 112, 115, 58, 47, 47, 108, 111, 99, 97, 108, 104, 111, 115, 116>>
ORIGIN_OTHER ==
    <<104, 116, 116, 112, 115, 58, 47, 47, 111, 116, 104, 101, 114, 46, 101, 120, 97, 109, 112, 108, 101>>
S_nonce == <<110, 111, 110, 99, 101>>

(***************************************************************************)
(* Byte-string helpers.                                                    *)
(***************************************************************************)
Min(a, b) == IF a < b THEN a ELSE b

Zeros(n) == [i \in 1..n |-> 0]

\* Uint8Array.prototype.slice(from, to) with 0-based, end-exclusive indices.
Slice(bytes, from, to) ==
    LET hi == Min(to, Len(bytes))
    IN  IF from >= hi THEN <<>> ELSE [i \in 1..(hi - from) |-> bytes[from + i]]

\* TypedArray.prototype.set(src, offset) on a buffer that is long enough.
SetAt(buf, src, offset) ==
    [i \in 1..Len(buf) |->
        IF i > offset /\ i <= offset + Len(src) THEN src[i - offset] ELSE buf[i]]

\* bytes.every(b => b === 0)
isAllZeros(bytes) == \A i \in 1..Len(bytes) : bytes[i] = 0

\* n non-zero filler bytes, different for different seeds.
Fill(n, seed) == [i \in 1..n |-> ((i * 7 + seed * 13) % 251) + 1]

Rep(b, n) == [i \in 1..n |-> b]

(***************************************************************************)
(* TextEncoder / TextDecoder for code points below 0x800.                  *)
(***************************************************************************)
RECURSIVE Utf8Encode(_)
Utf8Encode(cps) ==
    IF cps = <<>> THEN <<>>
    ELSE LET c == Head(cps)
         IN  (IF c < 128 THEN <<c>>
              ELSE <<192 + (c \div 64), 128 + (c % 64)>>) \o Utf8Encode(Tail(cps))

RECURSIVE Utf8Decode(_)
Utf8Decode(bs) ==
    IF bs = <<>> THEN <<>>
    ELSE IF bs[1] < 128 THEN <<bs[1]>> \o Utf8Decode(Tail(bs))
    ELSE IF bs[1] >= 192 /\ bs[1] < 224 /\ Len(bs) >= 2
         THEN <<(bs[1] - 192) * 64 + (bs[2] - 128)>> \o Utf8Decode(Tail(Tail(bs)))
    ELSE <<65533>> \o Utf8Decode(Tail(bs))

\* Decimal digits of a natural number, as code points.
RECURSIVE Decimal(_)
Decimal(n) == IF n < 10 THEN <<48 + n>> ELSE Decimal(n \div 10) \o <<48 + (n % 10)>>

\* String(v) of a decoded value, as TextEncoder.encode applies it to a
\* non-string argument (undefined encodes as the empty string).
RECURSIVE JoinDecimal(_)
JoinDecimal(bs) ==
    IF bs = <<>> THEN <<>>
    ELSE IF Len(bs) = 1 THEN Decimal(bs[1])
    ELSE Decimal(bs[1]) \o <<44>> \o JoinDecimal(Tail(bs))

ToJsString(v) ==
    CASE v[1] = "str" -> v[2]
      [] v[1] = "bool" -> IF v[2] THEN S_true ELSE S_false
      [] v[1] = "int" -> Decimal(v[2])
      [] v[1] = "bytes" -> JoinDecimal(v[2])
      [] OTHER -> <<>>

Undef == <<"undef">>

(***************************************************************************)
(* CBOR as cborg encodes and decodes it, for the value shapes an           *)
(* IssuerSignedItem holds: unsigned integers, byte strings, text strings,  *)
(* booleans and one map with text keys.                                    *)
(***************************************************************************)
\* Head byte(s) of major type mt with argument n; wide forces the one-byte
\* argument form even when n < 24 (legal CBOR, not what cborg emits).
CborHead(mt, n, wide) ==
    IF n < 24 /\ ~wide THEN <<mt * 32 + n>>
    ELSE IF n < 256 THEN <<mt * 32 + 24, n>>
    ELSE <<mt * 32 + 25, n \div 256, n % 256>>

CborValue(v, wide) ==
    CASE v[1] = "int" -> CborHead(0, v[2], wide)
      [] v[1] = "bytes" -> CborHead(2, Len(v[2]), FALSE) \o v[2]
      [] v[1] = "str" -> LET u == Utf8Encode(v[2]) IN CborHead(3, Len(u), FALSE) \o u
      [] v[1] = "bool" -> IF v[2] THEN <<245>> ELSE <<244>>
      [] OTHER -> <<247>>

ItemKeys == {"digestID", "random", "elementIdentifier", "elementValue"}

KeyBytes(k) ==
    CASE k = "digestID" -> S_digestID
      [] k = "random" -> S_random
      [] k = "elementIdentifier" -> S_elementIdentifier
      [] k = "elementValue" -> S_elementValue

\* cborg sorts map keys by encoded length, then bytewise.
CanonicalOrder == <<"random", "digestID", "elementValue", "elementIdentifier">>
\* The order in which ISO 18013-5 lists the fields.
IsoOrder == <<"digestID", "random", "elementIdentifier", "elementValue">>

RECURSIVE CborPairs(_, _, _)
CborPairs(obj, order, wide) ==
    IF order = <<>> THEN <<>>
    ELSE CborHead(3, Len(KeyBytes(Head(order))), FALSE) \o KeyBytes(Head(order))
         \o CborValue(obj[Head(order)], wide) \o CborPairs(obj, Tail(order), wide)

\* The bytes of an item whose keys are written in the given order.
EncodeItemOrdered(obj, order, wide) ==
    CborHead(5, Len(order), FALSE) \o CborPairs(obj, order, wide)

\* cborg encode(): sorted keys, smallest integer forms.
encode(obj) == EncodeItemOrdered(obj, CanonicalOrder, FALSE)

\* One data item read at 1-based position p: [ok, mt, arg, next].
ReadHead(bs, p) ==
    IF p > Len(bs) THEN [ok |-> FALSE, mt |-> 0, arg |-> 0, next |-> p]
    ELSE LET mt == bs[p] \div 32
             ai == bs[p] % 32
         IN  IF ai < 24 THEN [ok |-> TRUE, mt |-> mt, arg |-> ai, next |-> p + 1]
             ELSE IF ai = 24 /\ p + 1 <= Len(bs)
                  THEN [ok |-> TRUE, mt |-> mt, arg |-> bs[p + 1], next |-> p + 2]
             ELSE IF ai = 25 /\ p + 2 <= Len(bs)
                  THEN [ok |-> TRUE, mt |-> mt, arg |-> bs[p + 1] * 256 + bs[p + 2],
                        next |-> p + 3]
             ELSE [ok |-> FALSE, mt |-> mt, arg |-> 0, next |-> p]

ReadValue(bs, p) ==
    LET h == ReadHead(bs, p)
        bad == [ok |-> FALSE, v |-> Undef, next |-> p]
    IN  IF ~h.ok THEN bad
        ELSE IF h.mt = 0 THEN [ok |-> TRUE, v |-> <<"int", h.arg>>, next |-> h.next]
        ELSE IF h.mt \in {2, 3}
             THEN IF h.next + h.arg - 1 > Len(bs) THEN bad
                  ELSE LET body == Slice(bs, h.next - 1, h.next - 1 + h.arg)
                       IN  [ok |-> TRUE,
                            v |-> IF h.mt = 2 THEN <<"bytes", body>>
                                  ELSE <<"str", Utf8Decode(body)>>,
                            next |-> h.next + h.arg]
        ELSE IF h.mt = 7 /\ bs[p] \in {244, 245}
             THEN [ok |-> TRUE, v |-> <<"bool", bs[p] = 245>>, next |-> p + 1]
        ELSE IF h.mt = 7 /\ bs[p] \in {246, 247}
             THEN [ok |-> TRUE, v |-> Undef, next |-> p + 1]
        ELSE bad

EmptyObj == [k \in ItemKeys |-> Undef]

KeyOf(cps) ==
    CASE cps = S_digestID -> "digestID"
      [] cps = S_random -> "random"
      [] cps = S_elementIdentifier -> "elementIdentifier"
      [] cps = S_elementValue -> "elementValue"
      [] OTHER -> "other"

\* n key/value pairs read from position p into obj (a later duplicate key
\* overwrites an earlier one, keys the parser never reads are dropped).
RECURSIVE DecodePairs(_, _, _, _)
DecodePairs(bs, p, n, obj) ==
    IF n = 0 THEN [ok |-> p = Len(bs) + 1, obj |-> obj]
    ELSE LET k == ReadValue(bs, p)
         IN  IF ~k.ok \/ k.v[1] # "str" THEN [ok |-> FALSE, obj |-> obj]
             ELSE LET v == ReadValue(bs, k.next)
                      name == KeyOf(k.v[2])
                  IN  IF ~v.ok THEN [ok |-> FALSE, obj |-> obj]
                      ELSE DecodePairs(bs, v.next, n - 1,
                               IF name = "other" THEN obj
                               ELSE [obj EXCEPT ![name] = v.v])

\* cborg decode() of one encoded item: [ok, obj]; ok = FALSE is a throw.
\* A well-formed scalar decodes to a value none of whose fields is defined.
decode(bs) ==
    LET h == ReadHead(bs, 1)
    IN  IF ~h.ok THEN [ok |-> FALSE, obj |-> EmptyObj]
        ELSE IF h.mt = 5 THEN DecodePairs(bs, h.next, h.arg, EmptyObj)
        ELSE LET v == ReadValue(bs, 1)
             IN  [ok |-> v.ok /\ v.next = Len(bs) + 1, obj |-> EmptyObj]

(***************************************************************************)
(* Outcomes: a returned value or a thrown error with its code.  A thrown   *)
(* error that is no CredentialError has code "TypeError".                  *)
(***************************************************************************)
Ok(v) == [st |-> "ok", code |-> "", val |-> v]
Err(c) == [st |-> "err", code |-> c, val |-> <<>>]
None == [st |-> "none", code |-> "", val |-> <<>>]

(***************************************************************************)
(* credential/parse.ts                                                     *)
(***************************************************************************)
\* Mutant of padToSize: a short buffer is right-aligned, zeros in front.
padToSize_RightAlign(bytes, size) ==
    IF Len(bytes) >= size THEN Slice(bytes, 0, size)
    ELSE SetAt(Zeros(size), bytes, size - Len(bytes))

\* Mutant of padToSize: pads, but returns an oversized buffer as it is.
padToSize_NoTruncate(bytes, size) ==
    IF Len(bytes) >= size THEN bytes
    ELSE SetAt(Zeros(size), bytes, 0)

\* padToSize(bytes, size): pad with trailing zeros or truncate.
padToSize(bytes, size) ==
    IF Len(bytes) = size THEN bytes
    ELSE SetAt(Zeros(size), Slice(bytes, 0, size), 0)

\* Mutant of stringToBytes: the bytes are written at the end of the buffer.
stringToBytes_RightAlign(str, size) ==
    LET b == Slice(Utf8Encode(str), 0, size)
    IN  SetAt(Zeros(size), b, size - Len(b))

\* stringToBytes(str, size): UTF-8 of str, truncated, zero-filled at the end.
stringToBytes(str, size) ==
    SetAt(Zeros(size), Slice(Utf8Encode(str), 0, size), 0)

\* parseDate(dateValue): milliseconds since the epoch.  A date string is
\* <<"str", t>> with t the instant it denotes, a number is seconds.
parseDate(dateValue) ==
    CASE dateValue[1] = "str" -> dateValue[2]
      [] dateValue[1] = "int" -> dateValue[2] * 1000
      [] OTHER -> 0

\* The first index i (0-based) at which extractPubkeyFromCert accepts a key,
\* or -1: byte 0x04 at i, 0x41 before it, x and y not all zero.
KeyAt(certBytes, i) ==
    /\ certBytes[i + 1] = 4
    /\ i > 0
    /\ certBytes[i] = 65
    /\ ~isAllZeros(Slice(certBytes, i + 1, i + 33))
    /\ ~isAllZeros(Slice(certBytes, i + 33, i + 65))

RECURSIVE ScanCert(_, _)
ScanCert(certBytes, i) ==
    IF ~(i < Len(certBytes) - 64) THEN -1
    ELSE IF KeyAt(certBytes, i) THEN i
    ELSE ScanCert(certBytes, i + 1)

extractPubkeyFromCert(certBytes) ==
    LET i == ScanCert(certBytes, 0)
    IN  IF i < 0 THEN Err("PARSE_ERROR")
        ELSE Ok([x |-> Slice(certBytes, i + 1, i + 33),
                 y |-> Slice(certBytes, i + 33, i + 65)])

\* extractIACAPubkey(issuerAuth).  issuerAuth is the decoded COSE_Sign1:
\* [n, protectedOk, protectedChain, unprotectedChain, payload, signature];
\* a chain is a sequence of certificates (empty when the header has none).
extractIACAPubkey(issuerAuth) ==
    IF issuerAuth.n < 2 THEN Err("PARSE_ERROR")
    ELSE IF ~issuerAuth.protectedOk THEN Err("TypeError")
    ELSE IF issuerAuth.protectedChain = <<>>
         THEN IF issuerAuth.unprotectedChain = <<>> THEN Err("PARSE_ERROR")
              ELSE extractPubkeyFromCert(issuerAuth.unprotectedChain[1])
    ELSE extractPubkeyFromCert(issuerAuth.protectedChain[1])

\* parseMSO(issuerAuth).  payload = [isBytes, bytes, decodes, validityInfo];
\* bytes is the encoded MSO (the wire bytes of a byte-string payload, the
\* encoder's output for an embedded object).
parseMSO(issuerAuth) ==
    IF issuerAuth.n < 4 THEN Err("PARSE_ERROR")
    ELSE IF ~issuerAuth.payload.decodes THEN Err("TypeError")
    ELSE Ok([bytes |-> issuerAuth.payload.bytes,
             signature |-> issuerAuth.signature,
             validityInfo |->
                 [signed |-> parseDate(issuerAuth.payload.validityInfo.signed),
                  validFrom |-> parseDate(issuerAuth.payload.validityInfo.validFrom),
                  validUntil |-> parseDate(issuerAuth.payload.validityInfo.validUntil)]])

\* The claims map after claims.set for items[1..n]: the last item with an
\* identifier wins.
ParsedClaimOf(item) ==
    [id |-> item.elementIdentifier, bytes |-> item.rawBytes,
     value |-> item.elementValue, digestIndex |-> item.digestID]

ClaimIds(items) == {items[i].elementIdentifier : i \in 1..Len(items)}

ClaimsMap(items) ==
    [id \in ClaimIds(items) |->
        LET last == CHOOSE i \in 1..Len(items) :
                        /\ items[i].elementIdentifier = id
                        /\ \A j \in (i + 1)..Len(items) : items[j].elementIdentifier # id
        IN  ParsedClaimOf(items[last])]

HasClaim(claims, name) == <<"str", name>> \in DOMAIN claims
GetClaim(claims, name) == claims[<<"str", name>>]

\* The catch block of parseCredential: a CredentialError is rethrown, any
\* other error is wrapped as PARSE_ERROR.
Wrap(outcome) ==
    IF outcome.st = "err" /\ outcome.code \notin {"PARSE_ERROR", "INVALID_CLAIM"}
    THEN Err("PARSE_ERROR") ELSE outcome

\* parseCredential(raw), raw = [issuerAuth, hasNamespace, items].
parseCredentialBody(raw) ==
    LET mso == parseMSO(raw.issuerAuth)
        claims == ClaimsMap(raw.items)
        key == extractIACAPubkey(raw.issuerAuth)
    IN  IF mso.st = "err" THEN mso
        ELSE IF ~raw.hasNamespace THEN Err("PARSE_ERROR")
        ELSE IF ~HasClaim(claims, S_document_number) THEN Err("INVALID_CLAIM")
        ELSE IF key.st = "err" THEN key
        ELSE Ok([mso |-> mso.val,
                 claims |-> claims,
                 iacaPubkey |-> key.val,
                 documentNumber |->
                     stringToBytes(ToJsString(GetClaim(claims, S_document_number).value),
                                   DOC_NUMBER_LEN)])

parseCredential(raw) == Wrap(parseCredentialBody(raw))

\* toProverCredential(parsed): padToSize of a signature that is no byte
\* array throws a TypeError.
toProverCredential(parsed) ==
    IF ~HasClaim(parsed.claims, S_age_over_21) THEN Err("INVALID_CLAIM")
    ELSE IF ~HasClaim(parsed.claims, S_age_over_18) THEN Err("INVALID_CLAIM")
    ELSE IF ~HasClaim(parsed.claims, S_issuing_jurisdiction) THEN Err("INVALID_CLAIM")
    ELSE IF parsed.mso.signature[1] # "bytes" THEN Err("TypeError")
    ELSE Ok([msoBytes |-> padToSize(parsed.mso.bytes, MSO_LEN),
             msoSignature |-> padToSize(parsed.mso.signature[2], SIG_LEN),
             ageOver21ClaimBytes |->
                 padToSize(GetClaim(parsed.claims, S_age_over_21).bytes, AGE_CLAIM_LEN),
             ageOver18ClaimBytes |->
                 padToSize(GetClaim(parsed.claims, S_age_over_18).bytes, AGE_CLAIM_LEN),
             stateClaimBytes |->
                 padToSize(GetClaim(parsed.claims, S_issuing_jurisdiction).bytes,
                           STATE_CLAIM_LEN),
             documentNumber |-> parsed.documentNumber,
             iacaPubkeyX |-> padToSize(parsed.iacaPubkey.x, PUBKEY_LEN),
             iacaPubkeyY |-> padToSize(parsed.iacaPubkey.y, PUBKEY_LEN)])

\* Length of the MSO that createMockCredential encodes (its strings and
\* digests all have fixed lengths).
MOCK_MSO_LEN == 316

\* createMockCredential(options); rnd seeds the crypto.getRandomValues
\* draws.  options = [ageOver21, ageOver18, state, documentNumber].
MockItem(digestID, rnd, id, value) ==
    encode([digestID |-> <<"int", digestID>>, random |-> <<"bytes", Fill(32, rnd)>>,
            elementIdentifier |-> <<"str", id>>, elementValue |-> value])

createMockCredential(options, rnd) ==
    [msoBytes |-> padToSize(Fill(MOCK_MSO_LEN, rnd), MSO_LEN),
     msoSignature |-> Fill(64, rnd + 1),
     ageOver21ClaimBytes |->
         padToSize(MockItem(0, rnd, S_age_over_21, <<"bool", options.ageOver21>>),
                   AGE_CLAIM_LEN),
     ageOver18ClaimBytes |->
         padToSize(MockItem(2, rnd + 1, S_age_over_18, <<"bool", options.ageOver18>>),
                   AGE_CLAIM_LEN),
     stateClaimBytes |->
         padToSize(MockItem(1, rnd + 2, S_issuing_jurisdiction, <<"str", options.state>>),
                   STATE_CLAIM_LEN),
     documentNumber |-> stringToBytes(options.documentNumber, DOC_NUMBER_LEN),
     iacaPubkeyX |-> Fill(32, rnd + 2),
     iacaPubkeyY |-> Fill(32, rnd + 3)]

(***************************************************************************)
(* credential/request.ts                                                   *)
(***************************************************************************)
\* parseDeviceResponse(deviceResponse).  deviceResponse.documents is a
\* sequence of [docType, hasIssuerSigned, hasIssuerAuth, hasNameSpaces,
\* hasMdlNamespace, issuerAuth, itemBytes]; itemBytes are the encoded
\* IssuerSignedItems of the org.iso.18013.5.1 namespace.
IsMdl(d) == d.docType = "org.iso.18013.5.1.mDL"

\* Mutant of RawItem: the raw bytes are the decoded item encoded again.
RawItem_Reencode(itemBytes) ==
    LET item == decode(itemBytes).obj
    IN  [digestID |-> item.digestID, random |-> item.random,
         elementIdentifier |-> item.elementIdentifier,
         elementValue |-> item.elementValue, rawBytes |-> encode(item)]

RawItem(itemBytes) ==
    LET item == decode(itemBytes).obj
    IN  [digestID |-> item.digestID, random |-> item.random,
         elementIdentifier |-> item.elementIdentifier,
         elementValue |-> item.elementValue, rawBytes |-> itemBytes]

parseDeviceResponse(resp) ==
    IF resp.documents = <<>> THEN Err("PARSE_ERROR")
    ELSE IF ~\E i \in 1..Len(resp.documents) : IsMdl(resp.documents[i])
         THEN Err("PARSE_ERROR")
    ELSE LET first == CHOOSE i \in 1..Len(resp.documents) :
                          /\ IsMdl(resp.documents[i])
                          /\ \A j \in 1..(i - 1) : ~IsMdl(resp.documents[j])
             doc == resp.documents[first]
         IN  IF ~doc.hasIssuerSigned THEN Err("PARSE_ERROR")
             ELSE IF ~doc.hasIssuerAuth THEN Err("PARSE_ERROR")
             ELSE IF ~doc.hasNameSpaces THEN Err("PARSE_ERROR")
             ELSE IF ~doc.hasMdlNamespace THEN Err("PARSE_ERROR")
             ELSE IF \E i \in 1..Len(doc.itemBytes) : ~decode(doc.itemBytes[i]).ok
                  THEN Err("TypeError")
             ELSE Ok([issuerAuth |-> doc.issuerAuth,
                      hasNamespace |-> TRUE,
                      items |-> [i \in 1..Len(doc.itemBytes) |-> RawItem(doc.itemBytes[i])]])

(***************************************************************************)
(* credential/hpke.ts.  A byte string of this section is a sequence of     *)
(* tagged elements: <<"b", n>> is the byte n, and every other element is a *)
(* block of bytes known only by how it was made: <<"point", k, onCurve>>   *)
(* the 65-byte raw public key of private key k, <<"nonce", i>> the i-th    *)
(* 12 random bytes, <<"dh", {k1, k2}>> the ECDH output of two key pairs,   *)
(* <<"hmac", key, msg>> an HMAC-SHA256 output and <<"first", n, block>>    *)
(* the first n bytes of a block.  Different blocks hold different bytes.   *)
(***************************************************************************)
HPKE_MODE_BASE == 0
KEM_ID == 16
KDF_ID == 1
AEAD_ID == 1
N_SECRET == 32
N_K == 16
N_N == 12

B(ints) == [i \in 1..Len(ints) |-> <<"b", ints[i]>>]

BlockLen(e) ==
    CASE e[1] = "b" -> 1
      [] e[1] = "point" -> 65
      [] e[1] = "nonce" -> 12
      [] e[1] = "first" -> e[2]
      [] OTHER -> 32

RECURSIVE LengthUpTo(_, _)
LengthUpTo(bs, n) == IF n = 0 THEN 0 ELSE BlockLen(bs[n]) + LengthUpTo(bs, n - 1)
ByteLength(bs) == LengthUpTo(bs, Len(bs))

I2OSP(n, w) == [i \in 1..w |-> <<"b", (n \div (256 ^ (w - i))) % 256>>]

PublicKeyOf(k) == << <<"point", k, TRUE>> >>

\* HMAC-SHA256.  The key is padded with zero bytes to the block size, so
\* keys that differ only in trailing zero bytes are the same key.
RECURSIVE LastNonZero(_, _)
LastNonZero(bs, n) ==
    IF n = 0 \/ bs[n] # <<"b", 0>> THEN n ELSE LastNonZero(bs, n - 1)
StripZeros(bs) == SubSeq(bs, 1, LastNonZero(bs, Len(bs)))

HMAC(key, msg) == << <<"hmac", StripZeros(key), msg>> >>

First(block, n) == IF n = N_SECRET THEN block ELSE << <<"first", n, block[1]>> >>

\* RFC 5869: HKDF-Extract, and HKDF-Expand for at most one hash block.
HKDF_Extract(salt, ikm) == HMAC(IF salt = <<>> THEN B(Zeros(N_SECRET)) ELSE salt, ikm)
HKDF_Expand(prk, info, length) == First(HMAC(prk, info \o B(<<1>>)), length)

\* crypto.subtle.deriveBits({name: 'HKDF', salt, info}, key, length * 8):
\* the whole of HKDF, extract and then expand.
DeriveBitsHKDF(keyMaterial, salt, info, length) ==
    HKDF_Expand(HKDF_Extract(salt, keyMaterial), info, length)

createHPKESession(origin, k, n) ==
    LET publicKeyBytes == PublicKeyOf(k)
        nonce == << <<"nonce", n>> >>
    IN  [session |-> [privateKey |-> k, publicKeyBytes |-> publicKeyBytes,
                      nonce |-> nonce, origin |-> origin],
         encryptionInfo |->
             B(<<162>>)
             \o B(CborHead(3, Len(S_nonce), FALSE) \o S_nonce)
             \o B(CborHead(2, ByteLength(nonce), FALSE)) \o nonce
             \o B(CborHead(3, Len(S_publicKey), FALSE) \o S_publicKey)
             \o B(CborHead(2, ByteLength(publicKeyBytes), FALSE)) \o publicKeyBytes]

buildSessionTranscript(session, pkEm) ==
    LET o == Utf8Encode(session.origin)
        originInfo == B(<<161>> \o CborHead(3, Len(S_origin), FALSE) \o S_origin
                        \o CborHead(3, Len(o), FALSE) \o o)
        requesterIdentity == B(<<160>>)
        browserHandover ==
            B(<<133>>)
            \o B(CborHead(3, Len(S_BrowserHandoverv1), FALSE) \o S_BrowserHandoverv1)
            \o B(CborHead(2, ByteLength(session.nonce), FALSE)) \o session.nonce
            \o B(CborHead(2, ByteLength(originInfo), FALSE)) \o originInfo
            \o B(CborHead(2, ByteLength(requesterIdentity), FALSE)) \o requesterIdentity
            \o B(CborHead(2, ByteLength(pkEm), FALSE)) \o pkEm
    IN  B(<<131, 246, 246>>) \o browserHandover

labeledExtract(salt, label, ikm, suiteId) ==
    LET labeledIkm == B(S_HPKE_v1) \o suiteId \o B(label) \o ikm
    IN  HMAC(IF Len(salt) > 0 THEN salt ELSE B(Zeros(32)), labeledIkm)

LabeledInfo(label, info, length, suiteId) ==
    I2OSP(length, 2) \o B(S_HPKE_v1) \o suiteId \o B(label) \o info

\* RFC 9180 LabeledExpand, which the comments of labeledExpand name: the
\* expand step alone, keyed with prk.
LabeledExpandRfc(prk, label, info, length, suiteId) ==
    HKDF_Expand(prk, LabeledInfo(label, info, length, suiteId), length)

labeledExpand(prk, label, info, length, suiteId) ==
    DeriveBitsHKDF(prk, <<>>, LabeledInfo(label, info, length, suiteId), length)

buildSuiteId == B(S_HPKE) \o I2OSP(KEM_ID, 2) \o I2OSP(KDF_ID, 2) \o I2OSP(AEAD_ID, 2)

buildKemSuiteId == B(S_KEM) \o I2OSP(KEM_ID, 2)

\* importKey('raw', ...) rejects bytes that are no point of the curve.
deriveSharedSecret(privateKey, publicKeyBytes) ==
    IF Len(publicKeyBytes) = 1 /\ publicKeyBytes[1][1] = "point" /\ publicKeyBytes[1][3]
    THEN Ok(<< <<"dh", {privateKey, publicKeyBytes[1][2]}>> >>)
    ELSE Err("DataError")

decap(enc, skR, pkR) ==
    LET kemSuiteId == buildKemSuiteId
        dh == deriveSharedSecret(skR, enc)
        kemContext == enc \o pkR
    IN  IF dh.st = "err" THEN dh
        ELSE Ok(labeledExpand(labeledExtract(<<>>, S_eae_prk, dh.val, kemSuiteId),
                              S_shared_secret, kemContext, N_SECRET, kemSuiteId))

keyScheduleR(sharedSecret, info) ==
    LET suiteId == buildSuiteId
        pskIdHash == labeledExtract(<<>>, S_psk_id_hash, <<>>, suiteId)
        infoHash == labeledExtract(<<>>, S_info_hash, info, suiteId)
        ksContext == B(<<HPKE_MODE_BASE>>) \o pskIdHash \o infoHash
        secret == labeledExtract(sharedSecret, S_secret, <<>>, suiteId)
    IN  [key |-> labeledExpand(secret, S_key, ksContext, N_K, suiteId),
         baseNonce |-> labeledExpand(secret, S_base_nonce, ksContext, N_N, suiteId)]

\* AES-128-GCM as an ideal cipher: a ciphertext with its tag is the record
\* of what it was sealed from, and opens only under the same key, nonce and
\* additional data, and only when no bit of it was changed.
\* Mutant of aesGcmDecrypt: the additional data are not authenticated.
aesGcmDecrypt_NoAad(key, nonce, aad, ciphertext) ==
    IF ciphertext.flip = "none" /\ ciphertext.key = key /\ ciphertext.nonce = nonce
    THEN Ok(ciphertext.pt)
    ELSE Err("OperationError")

aesGcmDecrypt(key, nonce, aad, ciphertext) ==
    IF /\ ciphertext.flip = "none"
       /\ ciphertext.key = key
       /\ ciphertext.nonce = nonce
       /\ ciphertext.aad = aad
    THEN Ok(ciphertext.pt)
    ELSE Err("OperationError")

\* The shared secret, key and base nonce decryptCredentialResponse derives.
DerivedKeys(encrypted, session) ==
    LET enc == encrypted.encryptionParameters.EDeviceKey
        sharedSecret == decap(enc, session.privateKey, session.publicKeyBytes)
    IN  IF sharedSecret.st = "err" THEN sharedSecret
        ELSE Ok([sharedSecret |-> sharedSecret.val] @@ keyScheduleR(sharedSecret.val, <<>>))

decryptCredentialResponse(encrypted, session) ==
    LET enc == encrypted.encryptionParameters.EDeviceKey
        ciphertext == encrypted.data
        sessionTranscript == buildSessionTranscript(session, enc)
        keys == DerivedKeys(encrypted, session)
        plaintext == IF keys.st = "err" THEN keys
                     ELSE aesGcmDecrypt(keys.val.key, keys.val.baseNonce,
                                        sessionTranscript, ciphertext)
    IN  IF plaintext.st = "err" THEN Err("PARSE_ERROR") ELSE plaintext

(***************************************************************************)
(* prover/prover.ts.  Hash outputs are symbolic: poseidon2 and keccak256   *)
(* are injective term constructors, and a 0x-hex string of a byte string   *)
(* b is the term <<"hex", b>>.                                             *)
(***************************************************************************)
poseidon2Hash(inputs) == <<"poseidon2", inputs>>
toHex(bytes) == <<"hex", bytes>>
hexToBytes(hex) == hex[2]

\* hashEventId(eventId): keccak256 reduced modulo the field prime, as hex.
hashEventId(eventId) == toHex(<<"mod_bn254", <<"keccak256", eventId>>>>)

\* addressToField(address): the 20 address bytes left-padded to 32.
addressToField(address) == toHex(Zeros(12) \o address)

\* padTo32Bytes(input): truncate, or right-align with leading zeros.
padTo32Bytes(input) ==
    IF Len(input) >= FIELD_LEN THEN Slice(input, 0, FIELD_LEN)
    ELSE SetAt(Zeros(FIELD_LEN), input, FIELD_LEN - Len(input))

computeIacaRoot(pubkeyX, pubkeyY) ==
    toHex(poseidon2Hash(<<padTo32Bytes(pubkeyX), padTo32Bytes(pubkeyY)>>))

\* Mutant of computeNullifier: the document number is left out of the hash.
computeNullifier_NoDoc(documentNumber, eventId, iacaRoot) ==
    toHex(poseidon2Hash(<<hexToBytes(eventId), hexToBytes(iacaRoot)>>))

computeNullifier(documentNumber, eventId, iacaRoot) ==
    toHex(poseidon2Hash(<<padTo32Bytes(documentNumber), hexToBytes(eventId),
                          hexToBytes(iacaRoot)>>))

\* Mutant of ByteAt: the index is taken one position early.
ByteAt_OffByOne(bytes, i) == IF i >= 1 /\ i <= Len(bytes) THEN bytes[i] ELSE 0

\* bytes[i] ?? 0 with a 0-based index.
ByteAt(bytes, i) == IF i + 1 <= Len(bytes) THEN bytes[i + 1] ELSE 0

\* A boolean option that may be absent: <<"bool", b>> or <<"undef">>.
Truthy(opt) == opt[1] = "bool" /\ opt[2]

\* buildWitnessInputs(bb, credential, options, timestamp).
buildWitnessInputs(credential, options, timestamp) ==
    LET iacaRoot == computeIacaRoot(credential.iacaPubkeyX, credential.iacaPubkeyY)
        eventId == hashEventId(options.eventId)
    IN  [nullifier |-> computeNullifier(credential.documentNumber, eventId, iacaRoot),
         proof_timestamp |-> timestamp,
         event_id |-> eventId,
         iaca_root |-> iacaRoot,
         bound_address |-> addressToField(options.boundAddress),
         prove_age_over_21 |-> Truthy(options.proveAgeOver21),
         prove_age_over_18 |-> Truthy(options.proveAgeOver18),
         prove_state |-> Truthy(options.proveState),
         proven_state |->
             IF Truthy(options.proveState)
             THEN <<ByteAt(credential.stateClaimBytes, STATE_CODE_OFFSET),
                    ByteAt(credential.stateClaimBytes, STATE_CODE_OFFSET + 1)>>
             ELSE <<0, 0>>,
         mso_bytes |-> credential.msoBytes,
         mso_signature |-> credential.msoSignature,
         age_over_21_claim_bytes |-> credential.ageOver21ClaimBytes,
         age_over_18_claim_bytes |-> credential.ageOver18ClaimBytes,
         state_claim_bytes |-> credential.stateClaimBytes,
         document_number |-> credential.documentNumber,
         iaca_pubkey_x |-> credential.iacaPubkeyX,
         iaca_pubkey_y |-> credential.iacaPubkeyY]

\* The value generateProof returns once the circuit has executed:
\* provenState is the two-character string String.fromCharCode builds.
GeneratedProof(credential, options, timestamp) ==
    LET w == buildWitnessInputs(credential, options, timestamp)
    IN  [witnessInputs |-> w,
         publicInputs |->
             [nullifier |-> w.nullifier,
              proofTimestamp |-> timestamp,
              eventId |-> w.event_id,
              iacaRoot |-> w.iaca_root,
              boundAddress |-> options.boundAddress,
              proveAgeOver21 |-> Truthy(options.proveAgeOver21),
              proveAgeOver18 |-> Truthy(options.proveAgeOver18),
              proveState |-> Truthy(options.proveState),
              provenState |->
                  IF Truthy(options.proveState)
                  THEN <<ByteAt(credential.stateClaimBytes, STATE_CODE_OFFSET),
                         ByteAt(credential.stateClaimBytes, STATE_CODE_OFFSET + 1)>>
                  ELSE <<0, 0>>]]

(***************************************************************************)
(* What the wallet and the caller can supply.                              *)
(***************************************************************************)
\* Document numbers: a run of 'A' followed by up to MaxSuffix characters
\* among 'B', NUL and e-acute (two bytes in UTF-8); their encodings are
\* shorter than, as long as and longer than the 32-byte buffer.
DocAlphabet == {66, 0, 233}
Suffixes == UNION {[1..k -> DocAlphabet] : k \in 0..MaxSuffix}
DocBaseLens == {0, DOC_NUMBER_LEN - 2, DOC_NUMBER_LEN - 1}
DocNumbers == {Rep(65, n) \o sfx : n \in DocBaseLens, sfx \in Suffixes}
BaseDoc == <<68, 49, 50, 51>>
\* The document numbers a wallet answers with: the empty one and those
\* around the width of the buffer.
WalletDocNumbers ==
    {<<>>} \cup {Rep(65, DOC_NUMBER_LEN - 1) \o sfx : sfx \in Suffixes}

\* Jurisdiction values: "CA", "TX", and a one- and a three-letter value.
States == {<<67, 65>>, <<84, 88>>, <<67>>, <<67, 65, 76>>}

\* How the wallet writes an item: key order and integer width.
Encodings ==
    {[order |-> CanonicalOrder, wide |-> FALSE],
     [order |-> IsoOrder, wide |-> FALSE],
     [order |-> CanonicalOrder, wide |-> TRUE]}

WalletItem(e, digestID, seed, id, value) ==
    EncodeItemOrdered([digestID |-> <<"int", digestID>>,
                       random |-> <<"bytes", Fill(32, seed)>>,
                       elementIdentifier |-> <<"str", id>>,
                       elementValue |-> value], e.order, e.wide)

\* Certificates: filler, then (for "good") 0x41 0x04 x y; "zeroX" has an
\* all-zero x, "decoy" an all-zero key before the real one, "none" no key.
Cert(kind) ==
    CASE kind = "good" -> Fill(20, 1) \o <<65, 4>> \o Fill(32, 2) \o Fill(32, 3) \o Fill(6, 4)
      [] kind = "zeroX" -> Fill(20, 1) \o <<65, 4>> \o Zeros(32) \o Fill(32, 3) \o Fill(6, 4)
      [] kind = "decoy" -> Fill(8, 1) \o <<65, 4>> \o Zeros(64) \o <<65, 4>>
                           \o Fill(32, 2) \o Fill(32, 3) \o Fill(6, 4)
      [] kind = "tail" -> Fill(20, 1) \o <<65, 4>> \o Fill(32, 2) \o Fill(32, 3)
      [] OTHER -> Fill(90, 1)
CertKinds == {"good", "zeroX", "decoy", "tail", "none"}

SigLens == (SIG_LEN - MaxSlack)..(SIG_LEN + MaxSlack)
MsoLens == {MOCK_MSO_LEN} \cup ((MSO_LEN - MaxSlack)..(MSO_LEN + MaxSlack))
Times == 0..MaxTime
DateValues == {<<"str", t>> : t \in Times} \cup {<<"int", 0>>, Undef}

\* One wallet answer.  drop names a claim the wallet leaves out.
BaseProfile ==
    [enc |-> [order |-> CanonicalOrder, wide |-> FALSE], doc |-> BaseDoc,
     state |-> <<67, 65>>, drop |-> "none", msoLen |-> MOCK_MSO_LEN,
     sig |-> <<"bytes", Fill(SIG_LEN, 5)>>, cert |-> "good", chainIn |-> "protected",
     until |-> <<"str", MaxTime>>, cose |-> 4, shape |-> "mdl"]

Drops == {"document_number", "age_over_21", "age_over_18", "issuing_jurisdiction"}
Shapes == {"mdl", "otherFirst", "noDocs", "noMdl", "noIssuerSigned", "noIssuerAuth",
           "noNameSpaces", "noMdlNamespace", "badItem", "dupItem"}

Profiles ==
    {[BaseProfile EXCEPT !.doc = d] : d \in WalletDocNumbers}
    \cup {[BaseProfile EXCEPT !.state = st, !.enc = e] : st \in States, e \in Encodings}
    \cup {[BaseProfile EXCEPT !.drop = x] : x \in Drops}
    \cup {[BaseProfile EXCEPT !.msoLen = l] : l \in MsoLens}
    \cup {[BaseProfile EXCEPT !.sig = <<"bytes", Fill(l, 5)>>] : l \in SigLens}
    \cup {[BaseProfile EXCEPT !.sig = Undef]}
    \cup {[BaseProfile EXCEPT !.cert = c, !.chainIn = w] :
              c \in CertKinds, w \in {"protected", "unprotected", "nowhere", "undecodable"}}
    \cup {[BaseProfile EXCEPT !.until = u] : u \in DateValues}
    \cup {[BaseProfile EXCEPT !.cose = n] : n \in {1, 3}}
    \cup {[BaseProfile EXCEPT !.shape = sh] : sh \in Shapes}

IssuerAuthOf(p) ==
    [n |-> p.cose,
     protectedOk |-> p.chainIn # "undecodable",
     protectedChain |-> IF p.chainIn = "protected" THEN <<Cert(p.cert)>> ELSE <<>>,
     unprotectedChain |-> IF p.chainIn = "unprotected" THEN <<Cert(p.cert)>> ELSE <<>>,
     payload |-> [isBytes |-> TRUE, bytes |-> Fill(p.msoLen, 6), decodes |-> TRUE,
                  validityInfo |-> [signed |-> <<"str", 0>>, validFrom |-> <<"str", 0>>,
                                    validUntil |-> p.until]],
     signature |-> p.sig]

ItemBytesOf(p) ==
    LET all == <<[id |-> "age_over_21",
                  b |-> WalletItem(p.enc, 0, 1, S_age_over_21, <<"bool", TRUE>>)],
                 [id |-> "issuing_jurisdiction",
                  b |-> WalletItem(p.enc, 1, 2, S_issuing_jurisdiction, <<"str", p.state>>)],
                 [id |-> "age_over_18",
                  b |-> WalletItem(p.enc, 2, 3, S_age_over_18, <<"bool", TRUE>>)],
                 [id |-> "document_number",
                  b |-> WalletItem(p.enc, 3, 4, S_document_number, <<"str", p.doc>>)]>>
        kept == SelectSeq(all, LAMBDA it : it.id # p.drop)
        bytes == [i \in 1..Len(kept) |-> kept[i].b]
    IN  IF p.shape = "badItem" THEN bytes \o <<(<<161, 97>>)>>
        ELSE IF p.shape = "dupItem"
             THEN bytes \o <<WalletItem(p.enc, 4, 5, S_document_number, <<"str", <<90>>>>)>>
        ELSE bytes

MdlDoc(p) ==
    [docType |-> "org.iso.18013.5.1.mDL",
     hasIssuerSigned |-> p.shape # "noIssuerSigned",
     hasIssuerAuth |-> p.shape # "noIssuerAuth",
     hasNameSpaces |-> p.shape # "noNameSpaces",
     hasMdlNamespace |-> p.shape # "noMdlNamespace",
     issuerAuth |-> IssuerAuthOf(p),
     itemBytes |-> ItemBytesOf(p)]

OtherDoc(p) ==
    [MdlDoc([p EXCEPT !.doc = <<88>>, !.shape = "mdl"]) EXCEPT !.docType = "org.example.other"]

DeviceResponseOf(p) ==
    [documents |->
        CASE p.shape = "noDocs" -> <<>>
          [] p.shape = "noMdl" -> <<OtherDoc(p)>>
          [] p.shape = "otherFirst" -> <<OtherDoc(p), MdlDoc(p)>>
          [] OTHER -> <<MdlDoc(p)>>]

\* The mDL document parseDeviceResponse selects, when there is one.
SelectedItemBytes(resp) ==
    LET first == CHOOSE i \in 1..Len(resp.documents) :
                     /\ IsMdl(resp.documents[i])
                     /\ \A j \in 1..(i - 1) : ~IsMdl(resp.documents[j])
    IN  resp.documents[first].itemBytes

\* Options of createMockCredential and of generateProof.
MockOptions ==
    {[ageOver21 |-> TRUE, ageOver18 |-> TRUE, state |-> st, documentNumber |-> d] :
        st \in States, d \in {BaseDoc, Rep(65, DOC_NUMBER_LEN + MaxSlack)}}

EventIds == {"my-app-2026", "other-app"}
Address == Fill(20, 9)
ProofOptions ==
    {[eventId |-> e, boundAddress |-> Address, proveAgeOver21 |-> <<"bool", TRUE>>,
      proveAgeOver18 |-> Undef, proveState |-> ps] :
        e \in {"my-app-2026"}, ps \in {Undef, <<"bool", TRUE>>, <<"bool", FALSE>>}}

\* Credentials a caller builds by hand and passes to generateProof: the
\* fixture of the test suite, and ones whose buffers are shorter.
FixtureCredential ==
    [msoBytes |-> Zeros(MSO_LEN), msoSignature |-> Zeros(SIG_LEN),
     ageOver21ClaimBytes |-> Zeros(AGE_CLAIM_LEN),
     ageOver18ClaimBytes |-> Zeros(AGE_CLAIM_LEN),
     stateClaimBytes |-> SetAt(Zeros(STATE_CLAIM_LEN), <<67, 65>>, STATE_CODE_OFFSET),
     documentNumber |-> Zeros(DOC_NUMBER_LEN),
     iacaPubkeyX |-> Zeros(PUBKEY_LEN), iacaPubkeyY |-> Zeros(PUBKEY_LEN)]

CallerCredentials ==
    {FixtureCredential}
    \cup {[FixtureCredential EXCEPT !.iacaPubkeyX = Fill(PUBKEY_LEN - k, 2),
                                   !.documentNumber = Fill(DOC_NUMBER_LEN - k, 3)] :
             k \in 1..MaxSlack}
    \cup {[FixtureCredential EXCEPT !.stateClaimBytes = Fill(STATE_CODE_OFFSET + 1, 4)]}

Circuits == {"thurin.json"}

(***************************************************************************)
(* State.                                                                  *)
(***************************************************************************)
VARIABLES
    now,              \* the clock (Date.now())
    received,         \* the decoded DeviceResponse the wallet last returned
    rawCred,          \* outcome of parseDeviceResponse
    parsed,           \* outcome of parseCredential
    parsedAt,         \* the clock when parseCredential ran
    credential,       \* outcome of toProverCredential / createMockCredential
    credSrc,          \* who built credential: "parsed", "mock" or "caller"
    proof,            \* outcome of generateProof
    proofOpts,        \* the options of that generateProof call
    noir, backend, barretenbergAPI, currentCircuit,  \* prover.ts singletons
    padCall,          \* the last call of a padding helper: input and output
    nulA, nulB,       \* two nullifier derivations: inputs and result
    sessions,         \* the HPKESessions created so far, and who holds each
    uses,             \* how many decrypt calls each session was passed to
    req,              \* the requestCredential call in flight
    lastCall,         \* the last decryptCredentialResponse call and its result
    opened,           \* one decryptCredentialResponse call: its inputs and result
    flows,            \* two callers of initProver / generateProof / destroyProver
    engine,           \* the Barretenberg instances behind the singletons
    priceCall,        \* one getMintPrice() call: the contract state read and the result
    blockTimestamp,   \* block.timestamp
    warps,            \* how often the clock was moved
    sbt,              \* storage of ThurinSBT
    verifier,         \* storage of ThurinVerifier
    mintLog,          \* the successful mints: minter, nullifier and token id
    stampedAt,        \* per address, the time of its own last mint or renewal
    thurinPoints,     \* storage of ThurinPoints
    topCall,          \* one getTopDapps(limit) call: the limit and the result
    tierCall,         \* one mint at a given supply: price charged and tier recorded
    dateCall          \* one _timestampToYYYYMMDD call: the timestamp and the result

credVars == <<now, received, rawCred, parsed, parsedAt, credential, credSrc, proof,
              proofOpts, noir, backend, barretenbergAPI, currentCircuit>>
proverVars == <<noir, backend, barretenbergAPI, currentCircuit>>

padVars == <<padCall>>
nulVars == <<nulA, nulB>>
hpkeVars == <<sessions, uses, req, lastCall>>
openVars == <<opened>>
flowVars == <<flows, engine>>
priceVars == <<priceCall>>
chainVars == <<blockTimestamp, warps, sbt, verifier, mintLog, stampedAt>>
pointsVars == <<thurinPoints, topCall>>
probeVars == <<tierCall, dateCall>>
pipeVars == <<now, received, rawCred, parsed, parsedAt, credential, credSrc, proof, proofOpts>>
notCred == <<pointsVars, probeVars, chainVars, priceVars, padVars, nulVars, hpkeVars, openVars, flowVars>>
notPad == <<pointsVars, probeVars, chainVars, priceVars, credVars, nulVars, hpkeVars, openVars, flowVars>>
notNul == <<pointsVars, probeVars, chainVars, priceVars, credVars, padVars, hpkeVars, openVars, flowVars>>
notHpke == <<pointsVars, probeVars, chainVars, priceVars, credVars, padVars, nulVars, openVars, flowVars>>
notOpen == <<pointsVars, probeVars, chainVars, priceVars, credVars, padVars, nulVars, hpkeVars, flowVars>>
notFlows == <<pointsVars, probeVars, chainVars, pipeVars, padVars, nulVars, hpkeVars, openVars, priceVars>>
notPrice == <<pointsVars, probeVars, chainVars, credVars, padVars, nulVars, hpkeVars, openVars, flowVars>>

notChain == <<credVars, padVars, nulVars, hpkeVars, openVars, flowVars, priceVars, pointsVars,
              probeVars>>
notPoints == <<credVars, padVars, nulVars, hpkeVars, openVars, flowVars, priceVars, chainVars,
               probeVars>>
notProbe == <<credVars, padVars, nulVars, hpkeVars, openVars, flowVars, priceVars, chainVars,
              pointsVars>>
vars == <<credVars, padVars, nulVars, hpkeVars, openVars, flowVars, priceVars, chainVars,
          pointsVars, probeVars>>

InitPad == padCall = None
InitNul == nulA = None /\ nulB = None
InitHpke ==
    /\ sessions = <<>>
    /\ uses = <<>>
    /\ req = [pc |-> "idle", session |-> 0, encrypted |-> FALSE, dec |-> None, out |-> None]
    /\ lastCall = [st |-> "none"]
InitOpen == opened = [st |-> "none"]
InitFlows ==
    /\ flows = [f \in 1..2 |-> [pc |-> "idle", circuit |-> "null", bb |-> "null",
                                witnessBy |-> "null", afterDestroy |-> FALSE, out |-> None]]
    /\ engine = [destroyed |-> {}, backendApi |-> "null", destroyCalled |-> FALSE]

InitCred ==
    /\ now = 0
    /\ received = None
    /\ rawCred = None
    /\ parsed = None
    /\ parsedAt = 0
    /\ credential = None
    /\ credSrc = "none"
    /\ proof = None
    /\ proofOpts = None
    /\ noir = "null"
    /\ backend = "null"
    /\ barretenbergAPI = "null"
    /\ currentCircuit = "null"

(***************************************************************************)
(* Actions of the credential pipeline.                                     *)
(***************************************************************************)
InitPrice == priceCall = None
\* ThurinSBT and ThurinVerifier as deployed.  Amounts are in gwei
\* (1 ether = 10^9 gwei), timestamps in seconds.
ETHER == 1000000000
INITIAL_MINT_PRICE == 1500000
INITIAL_RENEWAL_PRICE == 1500000
DAY == 86400
INITIAL_VALIDITY_PERIOD == 365 * DAY
\* The block time at deployment (2024-01-01 00:00:00 UTC).
GENESIS == 1704067200

ZERO_ADDRESS == "0x0"
\* Externally owned accounts, and a contract that implements
\* onERC721Received.
Accounts == {"alice", "bob"}
ReceiverContracts == {"receiver"}
Addresses == Accounts \cup ReceiverContracts
Dapps == {"dappA", "dappB"}

\* Token ids the model follows; a mapping holds its default elsewhere.
MaxTokens == 2
TokenIds == 0..(MaxTokens - 1)

InitChain ==
    /\ blockTimestamp = GENESIS
    /\ warps = 0
    /\ sbt = [tokenIdCounter |-> 0,
              owners |-> [id \in TokenIds |-> ZERO_ADDRESS],
              tokenApprovals |-> [id \in TokenIds |-> ZERO_ADDRESS],
              operatorApprovals |-> {},
              tokenMintTimestamp |-> [id \in TokenIds |-> 0],
              userTokenId |-> [a \in Addresses |-> 0],
              nullifierUsed |-> {},
              trustedIACARoots |-> {},
              mintPrice |-> INITIAL_MINT_PRICE,
              renewalPrice |-> INITIAL_RENEWAL_PRICE,
              tokenTier |-> [id \in TokenIds |-> "OG"],
              referralCount |-> [id \in TokenIds |-> 0],
              referredBy |-> [id \in TokenIds |-> ZERO_ADDRESS],
              points |-> [a \in Addresses |-> 0],
              validityPeriod |-> INITIAL_VALIDITY_PERIOD]
    /\ verifier = [dappVerificationCount |-> [d \in Dapps |-> 0]]
    /\ mintLog = <<>>
    /\ stampedAt = [a \in Addresses |-> 0]

\* ThurinPoints as deployed: no points claimed, no dApp registered.
InitPoints ==
    /\ thurinPoints = [dappPoints |-> [d \in Dapps |-> 0],
                       claimedVerifications |-> [d \in Dapps |-> 0],
                       dappName |-> [d \in Dapps |-> ""],
                       dappRegistered |-> {},
                       registeredDapps |-> <<>>]
    /\ topCall = None

InitProbe == tierCall = None /\ dateCall = None

InitAll ==
    /\ InitCred /\ InitPad /\ InitNul /\ InitHpke /\ InitOpen /\ InitFlows /\ InitPrice
    /\ InitChain /\ InitPoints /\ InitProbe

Tick ==
    /\ now < MaxTime
    /\ now' = now + 1
    /\ UNCHANGED <<received, rawCred, parsed, parsedAt, credential, credSrc, proof,
                   proofOpts, proverVars,
                   notCred>>

\* requestCredential, after decryption: decode the DeviceResponse and run
\* parseDeviceResponse on it.
Idle == received.st = "none" /\ credential.st = "none"

ReceiveResponse ==
    \E p \in Profiles :
        /\ Idle
        /\ received' = Ok(DeviceResponseOf(p))
        /\ rawCred' = parseDeviceResponse(DeviceResponseOf(p))
        /\ parsed' = None
        /\ parsedAt' = 0
        /\ credential' = None
        /\ credSrc' = "none"
        /\ proof' = None
        /\ proofOpts' = None
        /\ UNCHANGED <<now, proverVars,
                   notCred>>

ParseCredential ==
    /\ rawCred.st = "ok"
    /\ parsed.st = "none"
    /\ parsed' = parseCredential(rawCred.val)
    /\ parsedAt' = now
    /\ UNCHANGED <<now, received, rawCred, credential, credSrc, proof, proofOpts,
                   proverVars,
                   notCred>>

ToProverCredential ==
    /\ parsed.st = "ok"
    /\ credential.st = "none"
    /\ credential' = toProverCredential(parsed.val)
    /\ credSrc' = "parsed"
    /\ UNCHANGED <<now, received, rawCred, parsed, parsedAt, proof, proofOpts, proverVars,
                   notCred>>

CreateMockCredential ==
    \E o \in MockOptions, rnd \in 1..2 :
        /\ Idle
        /\ credential' = Ok(createMockCredential(o, rnd))
        /\ credSrc' = "mock"
        /\ received' = None
        /\ rawCred' = None
        /\ parsed' = None
        /\ parsedAt' = 0
        /\ proof' = None
        /\ proofOpts' = None
        /\ UNCHANGED <<now, proverVars,
                   notCred>>

SupplyCredential ==
    \E c \in CallerCredentials :
        /\ Idle
        /\ credential' = Ok(c)
        /\ credSrc' = "caller"
        /\ received' = None
        /\ rawCred' = None
        /\ parsed' = None
        /\ parsedAt' = 0
        /\ proof' = None
        /\ proofOpts' = None
        /\ UNCHANGED <<now, proverVars,
                   notCred>>

\* initProver(circuit)
InitProver ==
    \E circuit \in Circuits :
        /\ IF currentCircuit = circuit /\ noir # "null" /\ backend # "null"
           THEN UNCHANGED proverVars
           ELSE /\ barretenbergAPI' = "bb"
                /\ noir' = circuit
                /\ backend' = circuit
                /\ currentCircuit' = circuit
        /\ UNCHANGED <<now, received, rawCred, parsed, parsedAt, credential, credSrc,
                       proof, proofOpts,
                   notCred>>

\* isProverInitialized()
isProverInitialized == noir # "null" /\ backend # "null"

\* Mutant of DestroyProver: only the Barretenberg instance is dropped.
DestroyProver_KeepNoir ==
    /\ barretenbergAPI' = "null"
    /\ UNCHANGED <<noir, backend, currentCircuit>>
    /\ UNCHANGED <<now, received, rawCred, parsed, parsedAt, credential, credSrc,
                   proof, proofOpts,
                   notCred>>

\* destroyProver()
DestroyProver ==
    /\ backend' = "null"
    /\ barretenbergAPI' = "null"
    /\ noir' = "null"
    /\ currentCircuit' = "null"
    /\ UNCHANGED <<now, received, rawCred, parsed, parsedAt, credential, credSrc,
                   proof, proofOpts,
                   notCred>>

\* generateProof(credential, options); the circuit's execution is the
\* external engine's and may reject the witness.
GenerateProof ==
    \E o \in ProofOptions, circuitOk \in BOOLEAN :
        /\ credential.st = "ok"
        /\ proofOpts' = Ok(o)
        /\ proof' = IF noir = "null" \/ backend = "null" \/ barretenbergAPI = "null"
                    THEN Err("Prover not initialized")
                    ELSE IF ~circuitOk THEN Err("Error")
                    ELSE Ok(GeneratedProof(credential.val, o, now))
        /\ UNCHANGED <<now, received, rawCred, parsed, parsedAt, credential, credSrc,
                       proverVars,
                   notCred>>

\* The flow ends: nothing of it is retained (its values were locals of the
\* caller).
Discard ==
    /\ ~Idle
    /\ received' = None
    /\ rawCred' = None
    /\ parsed' = None
    /\ parsedAt' = 0
    /\ credential' = None
    /\ credSrc' = "none"
    /\ proof' = None
    /\ proofOpts' = None
    /\ UNCHANGED <<now, proverVars,
                   notCred>>

NextCred ==
    \/ Tick
    \/ Discard
    \/ ReceiveResponse
    \/ ParseCredential
    \/ ToProverCredential
    \/ CreateMockCredential
    \/ SupplyCredential
    \/ InitProver
    \/ DestroyProver
    \/ GenerateProof

SpecCred == InitAll /\ [][NextCred]_vars

(***************************************************************************)
(* The padding helpers applied to buffers of every length around the       *)
(* protocol widths.                                                        *)
(***************************************************************************)
Widths == {MSO_LEN, SIG_LEN, AGE_CLAIM_LEN, STATE_CLAIM_LEN, PUBKEY_LEN}
PadLens ==
    (0..MaxSlack) \cup UNION {{w - k, w + k} : w \in Widths, k \in 0..MaxSlack}
\* Filler, and filler that itself begins and ends with a zero byte.
PadInputs ==
    {Fill(n, 1) : n \in PadLens}
    \cup {<<0>> \o Fill(n, 2) \o <<0>> : n \in 0..MaxSlack}

PadToSize ==
    \E input \in PadInputs, size \in Widths :
        /\ padCall' = [st |-> "ok", fn |-> "padToSize", input |-> input, size |-> size,
                       output |-> padToSize(input, size),
                       again |-> padToSize(padToSize(input, size), size)]
        /\ UNCHANGED notPad

PadTo32Bytes ==
    \E input \in PadInputs :
        /\ padCall' = [st |-> "ok", fn |-> "padTo32Bytes", input |-> input,
                       size |-> FIELD_LEN,
                       output |-> padTo32Bytes(input),
                       again |-> padTo32Bytes(padTo32Bytes(input))]
        /\ UNCHANGED notPad

NextPad == PadToSize \/ PadTo32Bytes

SpecPad == InitAll /\ [][NextPad]_vars

\* The claim's property of one padding call: a buffer of the target width
\* comes back unchanged, a shorter one comes back followed only by zeros,
\* and padding the result again changes nothing.
TrailingZeroPadding(c) ==
    /\ Len(c.input) = c.size => c.output = c.input
    /\ Len(c.input) < c.size =>
           /\ Len(c.output) = c.size
           /\ Slice(c.output, 0, Len(c.input)) = c.input
           /\ isAllZeros(Slice(c.output, Len(c.input), c.size))
    /\ c.again = c.output

LeadingZeroPadding(c) ==
    /\ Len(c.input) = c.size => c.output = c.input
    /\ Len(c.input) < c.size =>
           /\ Len(c.output) = c.size
           /\ Slice(c.output, c.size - Len(c.input), c.size) = c.input
           /\ isAllZeros(Slice(c.output, 0, c.size - Len(c.input)))
    /\ c.again = c.output

\* C5 as stated: every padding step of witness assembly leaves a buffer of
\* the target width unchanged, appends only zeros to a shorter one (never
\* zeros in front) and is idempotent.
C5_AllPaddingTrailing == padCall.st = "ok" => TrailingZeroPadding(padCall)

\* C5 amended: padToSize leaves a buffer of the target width unchanged and
\* appends only zeros to a shorter one; padTo32Bytes leaves a 32-byte buffer
\* unchanged and puts the zeros in front of a shorter one; both are
\* idempotent.
C5_Padding ==
    padCall.st = "ok" =>
        IF padCall.fn = "padToSize" THEN TrailingZeroPadding(padCall)
        ELSE LeadingZeroPadding(padCall)

\* C5 witness: padToSize has padded a non-empty buffer shorter than the
\* width.
C5_Witness ==
    /\ padCall.st = "ok"
    /\ padCall.fn = "padToSize"
    /\ Len(padCall.input) > 0
    /\ Len(padCall.input) < padCall.size
    /\ padCall.input[1] # 0

(***************************************************************************)
(* Two nullifier derivations for the same event and issuer.                *)
(***************************************************************************)
\* The issuer key of both credentials.
IssuerX == Fill(PUBKEY_LEN, 3)
IssuerY == Fill(PUBKEY_LEN, 4)

\* parseCredential's document-number buffer, then the three hashes
\* buildWitnessInputs computes for the nullifier.
Derivation(doc, e) ==
    LET documentNumber == stringToBytes(doc, DOC_NUMBER_LEN)
        eventId == hashEventId(e)
        iacaRoot == computeIacaRoot(IssuerX, IssuerY)
    IN  [st |-> "ok", doc |-> doc, eventIdString |-> e, eventId |-> eventId,
         iacaRoot |-> iacaRoot,
         documentNumber |-> documentNumber,
         nullifier |-> computeNullifier(documentNumber, eventId, iacaRoot)]

DeriveFirst ==
    \E doc \in DocNumbers, e \in EventIds :
        /\ nulA.st = "none"
        /\ nulA' = Derivation(doc, e)
        /\ nulB' = None
        /\ UNCHANGED notNul

DeriveSecond ==
    \E doc \in DocNumbers :
        /\ nulA.st = "ok"
        /\ nulB.st = "none"
        /\ nulB' = Derivation(doc, nulA.eventIdString)
        /\ UNCHANGED <<nulA, notNul>>

NextNul == DeriveFirst \/ DeriveSecond

SpecNullifier == InitAll /\ [][NextNul]_vars

BothDerived ==
    /\ nulA.st = "ok"
    /\ nulB.st = "ok"
    /\ nulA.eventId = nulB.eventId
    /\ nulA.iacaRoot = nulB.iacaRoot

\* C7 as stated: for a fixed event id and issuer root, two credentials whose
\* document numbers differ produce different nullifiers, for document
\* numbers of any length.
C7_DistinctNullifiers ==
    (BothDerived /\ nulA.doc # nulB.doc) => nulA.nullifier # nulB.nullifier

FitsBuffer(doc) ==
    LET u == Utf8Encode(doc)
    IN  Len(u) <= 32 /\ (u = <<>> \/ u[Len(u)] # 0)

\* C7 amended: for a fixed event id and issuer root, two credentials whose
\* document numbers have different UTF-8 encodings, each at most 32 bytes
\* long and not ending in a zero byte, produce different nullifiers.
C7_DistinctWithinBuffer ==
    (/\ BothDerived
     /\ Utf8Encode(nulA.doc) # Utf8Encode(nulB.doc)
     /\ FitsBuffer(nulA.doc)
     /\ FitsBuffer(nulB.doc))
        => nulA.nullifier # nulB.nullifier

\* C7 witness: two different document numbers that fill the buffer and
\* differ only in their last byte.
C7_Witness ==
    /\ BothDerived
    /\ nulA.doc # nulB.doc
    /\ FitsBuffer(nulA.doc)
    /\ FitsBuffer(nulB.doc)
    /\ Len(Utf8Encode(nulA.doc)) = 32
    /\ Len(Utf8Encode(nulB.doc)) = 32
    /\ nulA.nullifier # nulB.nullifier

(***************************************************************************)
(* The HPKE sessions of one page.  Sessions are created by requestCredential *)
(* or by a caller of the exported createHPKESession, and encrypted          *)
(* documents come from a wallet.                                            *)
(***************************************************************************)
MaxSessions == 2

\* uses counts decrypt calls per session as 0, 1 or "more than once".
CountUse(n) == Min(n + 1, 2)

CurrentOrigin == ORIGIN_LOCAL
OtherOrigin == ORIGIN_OTHER
SenderKey == 101
OtherSenderKey == 102
OtherReceiverKey == 201

\* How the wallet expands: as RFC 9180 says, or the way this receiver does.
SenderKinds == {"rfc9180", "asReceiver"}

SenderExpand(kind, prk, label, info, length, suiteId) ==
    IF kind = "rfc9180" THEN LabeledExpandRfc(prk, label, info, length, suiteId)
    ELSE labeledExpand(prk, label, info, length, suiteId)

\* RFC 9180 Encap and KeyScheduleS of the sender, for the receiver key pkR.
SenderKeys(kind, skE, pkR) ==
    LET kemSuiteId == buildKemSuiteId
        suiteId == buildSuiteId
        enc == PublicKeyOf(skE)
        dh == deriveSharedSecret(skE, pkR).val
        sharedSecret ==
            SenderExpand(kind, labeledExtract(<<>>, S_eae_prk, dh, kemSuiteId),
                         S_shared_secret, enc \o pkR, N_SECRET, kemSuiteId)
        ksContext == B(<<HPKE_MODE_BASE>>)
                     \o labeledExtract(<<>>, S_psk_id_hash, <<>>, suiteId)
                     \o labeledExtract(<<>>, S_info_hash, <<>>, suiteId)
        secret == labeledExtract(sharedSecret, S_secret, <<>>, suiteId)
    IN  [sharedSecret |-> sharedSecret,
         key |-> SenderExpand(kind, secret, S_key, ksContext, N_K, suiteId),
         baseNonce |-> SenderExpand(kind, secret, S_base_nonce, ksContext, N_N, suiteId)]

\* What differs between the document received and the one the wallet made
\* for this session.
Tampers ==
    {"none", "ct", "tag", "origin", "nonce", "encOther", "encOffCurve", "otherReceiver"}

Plaintexts ==
    {[cbor |-> TRUE, shape |-> "mdl"], [cbor |-> TRUE, shape |-> "noDocs"],
     [cbor |-> FALSE, shape |-> "mdl"]}

DocChoices == [kind : SenderKinds, tamper : Tampers, pt : Plaintexts]

\* The documents the wallets of a page answer with.
BaseChoice == [kind |-> "asReceiver", tamper |-> "none", pt |-> [cbor |-> TRUE, shape |-> "mdl"]]
WalletChoices ==
    {BaseChoice, [BaseChoice EXCEPT !.tamper = "tag"], [BaseChoice EXCEPT !.kind = "rfc9180"]}
    \cup {[BaseChoice EXCEPT !.pt = pt] : pt \in Plaintexts}

\* The wallet seals c.pt for the session it was asked by, under the origin
\* and nonce it saw; the document then reaches the page changed as c.tamper
\* says.
WalletDocument(c, session) ==
    LET pkR == IF c.tamper = "otherReceiver" THEN PublicKeyOf(OtherReceiverKey)
               ELSE session.publicKeyBytes
        enc == PublicKeyOf(SenderKey)
        keys == SenderKeys(c.kind, SenderKey, pkR)
        seen == [origin |-> IF c.tamper # "origin" THEN session.origin
                            ELSE IF session.origin = OtherOrigin THEN CurrentOrigin
                            ELSE OtherOrigin,
                 nonce |-> IF c.tamper = "nonce" THEN << <<"nonce", 0>> >> ELSE session.nonce]
        data == [key |-> keys.key, nonce |-> keys.baseNonce,
                 aad |-> buildSessionTranscript(seen, enc), pt |-> c.pt,
                 flip |-> IF c.tamper \in {"ct", "tag"} THEN c.tamper ELSE "none"]
    IN  [version |-> "1.0",
         encryptionParameters |->
             [version |-> "1.0",
              EDeviceKey |-> CASE c.tamper = "encOther" -> PublicKeyOf(OtherSenderKey)
                               [] c.tamper = "encOffCurve" -> << <<"point", SenderKey, FALSE>> >>
                               [] OTHER -> enc],
         data |-> data]

\* One decryptCredentialResponse call with session i, and what is recorded
\* of it.
CallRecord(c, i) ==
    LET session == sessions[i].session
        encrypted == WalletDocument(c, session)
    IN  [st |-> "done", session |-> i, owner |-> sessions[i].owner,
         priorUses |-> uses[i], kind |-> c.kind, tamper |-> c.tamper, pt |-> c.pt,
         out |-> decryptCredentialResponse(encrypted, session)]

\* One decryptCredentialResponse call with a session of its own: the keys the
\* sender sealed under, the keys derived, and the result.
OpenRecord(c, session) ==
    LET encrypted == WalletDocument(c, session)
    IN  [st |-> "done", origin |-> session.origin, kind |-> c.kind, tamper |-> c.tamper,
         pt |-> c.pt,
         sender |-> SenderKeys(c.kind, SenderKey, session.publicKeyBytes),
         derived |-> DerivedKeys(encrypted, session),
         out |-> decryptCredentialResponse(encrypted, session)]

\* Mutant of SessionForRequest: an earlier request's session is used again.
SessionForRequest_Cached(ss, us) ==
    IF \E i \in 1..Len(ss) : ss[i].owner = "request"
    THEN [sessions |-> ss, uses |-> us,
          index |-> CHOOSE i \in 1..Len(ss) : ss[i].owner = "request"]
    ELSE [sessions |-> Append(ss, [owner |-> "request",
                                    session |-> createHPKESession(CurrentOrigin, Len(ss) + 1,
                                                                  Len(ss) + 1).session]),
          uses |-> Append(us, 0), index |-> Len(ss) + 1]

\* The session requestCredential decrypts with: a new one for every call.
SessionForRequest(ss, us) ==
    [sessions |-> Append(ss, [owner |-> "request",
                              session |-> createHPKESession(CurrentOrigin, Len(ss) + 1,
                                                            Len(ss) + 1).session]),
     uses |-> Append(us, 0), index |-> Len(ss) + 1]

CredentialErrorCodes ==
    {"NOT_SUPPORTED", "USER_CANCELLED", "NO_CREDENTIAL", "PARSE_ERROR", "INVALID_CLAIM",
     "EXPIRED", "UNKNOWN"}

\* The catch block of requestCredential: a CredentialError is thrown on,
\* anything else becomes a CredentialError by its kind.
RequestCatch(outcome) ==
    IF outcome.st # "err" \/ outcome.code \in CredentialErrorCodes THEN outcome
    ELSE IF outcome.code = "NoDocuments" THEN Err("NO_CREDENTIAL")
    ELSE IF outcome.code = "NotAllowedError" THEN Err("USER_CANCELLED")
    ELSE IF outcome.code = "NotSupportedError" THEN Err("NOT_SUPPORTED")
    ELSE Err("UNKNOWN")

\* decode and parseDeviceResponse of the decrypted bytes.
BaseResponse == parseDeviceResponse(DeviceResponseOf(BaseProfile))
ParseDecrypted(pt) ==
    IF ~pt.cbor THEN Err("TypeError")
    ELSE IF pt.shape = BaseProfile.shape THEN BaseResponse
    ELSE parseDeviceResponse(DeviceResponseOf([BaseProfile EXCEPT !.shape = pt.shape]))

CreateHPKESession ==
    /\ Len(sessions) < MaxSessions
    /\ sessions' = Append(sessions,
                          [owner |-> "api",
                           session |-> createHPKESession(CurrentOrigin, Len(sessions) + 1,
                                                         Len(sessions) + 1).session])
    /\ uses' = Append(uses, 0)
    /\ UNCHANGED <<req, lastCall, notHpke>>

\* A caller of the exported decryptCredentialResponse passes it a session
\* it holds.
DecryptCredentialResponse ==
    \E i \in 1..Len(sessions), c \in WalletChoices :
        /\ sessions[i].owner = "api"
        /\ lastCall' = CallRecord(c, i)
        /\ uses' = [uses EXCEPT ![i] = CountUse(@)]
        /\ UNCHANGED <<sessions, req, notHpke>>

\* requestCredential up to the await of navigator.credentials.get.
RequestCredentialStart ==
    /\ req.pc # "await"
    /\ \E supported \in BOOLEAN :
        IF ~supported
        THEN /\ req' = [pc |-> "done", session |-> 0, encrypted |-> FALSE, dec |-> None,
                         out |-> Err("NOT_SUPPORTED")]
             /\ UNCHANGED <<sessions, uses>>
        ELSE LET r == SessionForRequest(sessions, uses)
             IN  /\ Len(r.sessions) <= MaxSessions
                 /\ sessions' = r.sessions
                 /\ uses' = r.uses
                 /\ req' = [pc |-> "await", session |-> r.index, encrypted |-> FALSE,
                             dec |-> None, out |-> None]
    /\ UNCHANGED <<lastCall, notHpke>>

\* Mutant of DecryptedResult: a response that did not decrypt is taken as
\* one that was already decrypted.
DecryptedResult_Fallback(dec) ==
    IF dec.st = "err" THEN BaseResponse ELSE RequestCatch(ParseDecrypted(dec.val))

\* requestCredential on an encrypted response, from the outcome of
\* decryptCredentialResponse on: the decrypted bytes are decoded and parsed,
\* a failure goes through the catch block.
DecryptedResult(dec) ==
    RequestCatch(IF dec.st = "err" THEN dec ELSE ParseDecrypted(dec.val))

\* The wallet answers with an encrypted document.
RequestCredentialDecrypt ==
    \E c \in WalletChoices :
        /\ req.pc = "await"
        /\ LET call == CallRecord(c, req.session)
           IN  /\ lastCall' = call
               /\ req' = [req EXCEPT !.pc = "done", !.encrypted = TRUE, !.dec = call.out,
                                     !.out = DecryptedResult(call.out)]
        /\ uses' = [uses EXCEPT ![req.session] = CountUse(@)]
        /\ UNCHANGED <<sessions, notHpke>>

\* The wallet gives nothing, get() throws, or the answer is not encrypted.
PlainAnswers == {"null", "noData", "NoDocuments", "NotAllowedError", "NotSupportedError",
                 "OtherError", "plain"}

RequestCredentialAnswer ==
    \E a \in PlainAnswers :
        /\ req.pc = "await"
        /\ req' = [req EXCEPT !.pc = "done",
                              !.out = CASE a = "null" -> Err("NO_CREDENTIAL")
                                        [] a = "noData" -> Err("PARSE_ERROR")
                                        [] a = "plain" ->
                                               BaseResponse
                                        [] OTHER -> RequestCatch(Err(a))]
        /\ UNCHANGED <<sessions, uses, lastCall, notHpke>>

NextHpke ==
    \/ CreateHPKESession
    \/ DecryptCredentialResponse
    \/ RequestCredentialStart
    \/ RequestCredentialDecrypt
    \/ RequestCredentialAnswer

SpecHpke == InitAll /\ [][NextHpke]_vars

\* C11 as stated: requestCredential returns credential data only after a
\* successful decryption of the wallet's response under the session created
\* for that request.
C11_OnlyDecrypted ==
    (req.pc = "done" /\ req.out.st = "ok") => (req.encrypted /\ req.dec.st = "ok")

\* C11 amended: a response that carries encryptionParameters and data is
\* returned as a credential only after it decrypted under the session
\* created for that request; a response without them is returned as it
\* came, with no decryption.
C11_DecryptedOrPlain ==
    /\ (req.pc = "done" /\ req.encrypted /\ req.out.st = "ok") => req.dec.st = "ok"
    /\ (req.pc = "done" /\ req.encrypted /\ req.dec.st = "err") => req.out = Err("PARSE_ERROR")
    /\ (req.pc = "done" /\ req.out.st = "ok" /\ ~req.encrypted) => req.dec = None

\* C11 witness: a request whose encrypted response failed to decrypt under
\* its session has ended in an error.
C11_Witness ==
    /\ req.pc = "done"
    /\ req.encrypted
    /\ req.session > 0
    /\ lastCall.st = "done"
    /\ lastCall.session = req.session
    /\ lastCall.tamper = "tag"
    /\ req.dec.st = "err"
    /\ req.out.st = "err"

\* C1 as stated: once a session has been passed to decryptCredentialResponse,
\* every later decrypt call with that session is rejected.
C1_SingleUse ==
    (lastCall.st = "done" /\ lastCall.priorUses > 0) => lastCall.out.st = "err"

\* C1 amended: requestCredential creates a new session for every request and
\* passes it to decryptCredentialResponse at most once; the decrypt call
\* itself keeps no record of use, and opens a document sealed for the
\* session however often the session was used before.
C1_OneDecryptPerRequest ==
    /\ \A i \in 1..Len(sessions) : sessions[i].owner = "request" => uses[i] <= 1
    /\ (lastCall.st = "done" /\ lastCall.kind = "asReceiver" /\ lastCall.tamper = "none")
           => lastCall.out = Ok(lastCall.pt)

\* C1 witness: a request has decrypted with its session once, and a session
\* held by a caller has opened a document on its second use.
C1_Witness ==
    /\ req.pc = "done"
    /\ req.session > 0
    /\ uses[req.session] = 1
    /\ lastCall.st = "done"
    /\ lastCall.owner = "api"
    /\ lastCall.priorUses > 0
    /\ lastCall.out.st = "ok"

(***************************************************************************)
(* decryptCredentialResponse applied to every document of DocChoices, each *)
(* call with a session made for it.                                        *)
(***************************************************************************)
Origins == {CurrentOrigin, OtherOrigin}

OpenDocument ==
    \E c \in DocChoices, origin \in Origins, k \in 1..MaxSessions :
        /\ opened.st = "none"
        /\ opened' = OpenRecord(c, createHPKESession(origin, k, k).session)
        /\ UNCHANGED notOpen

\* The caller drops the result.
DropDocument ==
    /\ opened.st = "done"
    /\ opened' = [st |-> "none"]
    /\ UNCHANGED notOpen

NextOpen == OpenDocument \/ DropDocument

SpecOpen == InitAll /\ [][NextOpen]_vars

\* C2 as stated: when the ciphertext, its tag, the associated data or the
\* encapsulated key differ from what the encryptor used, the call returns no
\* plaintext and fails with the kind DECRYPTION_FAILED, which is not the
\* parse-failure kind.
C2_DecryptionFailedKind ==
    (opened.st = "done" /\ opened.tamper # "none")
        => (opened.out.st = "err" /\ opened.out.code = "DECRYPTION_FAILED")

\* C2 amended: when the ciphertext, its tag, the associated data or the
\* encapsulated key differ from what the encryptor used, the call returns no
\* plaintext and throws a CredentialError of code PARSE_ERROR, the code parse
\* failures have too.
C2_TamperedIsParseError ==
    (opened.st = "done" /\ opened.tamper # "none") => opened.out = Err("PARSE_ERROR")

\* C2 witness: a document that would have opened arrives with another origin
\* in its associated data, and the call has failed.
C2_Witness ==
    /\ opened.st = "done"
    /\ opened.kind = "asReceiver"
    /\ opened.tamper = "origin"
    /\ opened.sender = opened.derived.val
    /\ opened.out.st = "err"

\* C3 as stated: labeledExpand is HKDF-Expand keyed with prk itself, so
\* Decap and the key schedule derive the shared secret, key and base nonce of
\* an RFC 9180 sender of the same suite.
C3_DerivesSenderKeys ==
    (opened.st = "done" /\ opened.kind = "rfc9180" /\ opened.tamper = "none")
        => opened.derived = Ok(opened.sender)

(***************************************************************************)
(* Claims checked under SpecCred.                                          *)
(***************************************************************************)
FromLibrary == credential.st = "ok" /\ credSrc \in {"parsed", "mock"}

SentDocNumber == Utf8Encode(ToJsString(GetClaim(parsed.val.claims, S_document_number).value))
FromParsed == credential.st = "ok" /\ credSrc = "parsed"

\* C6 as stated: the 32-byte document-number buffer is right-aligned: for a
\* document number of n <= 32 bytes its last n bytes are the document number
\* and its first 32 - n bytes are zero.
C6_RightAligned ==
    (FromParsed /\ Len(SentDocNumber) <= 32) =>
        LET n == Len(SentDocNumber)
            buf == credential.val.documentNumber
        IN  /\ Slice(buf, 32 - n, 32) = SentDocNumber
            /\ isAllZeros(Slice(buf, 0, 32 - n))

\* C6 amended: the buffer is left-aligned: for a document number of
\* n <= 32 bytes its first n bytes are the document number and its last
\* 32 - n bytes are zero.
C6_LeftAligned ==
    (FromParsed /\ Len(SentDocNumber) <= 32) =>
        LET n == Len(SentDocNumber)
            buf == credential.val.documentNumber
        IN  /\ Len(buf) = 32
            /\ Slice(buf, 0, n) = SentDocNumber
            /\ isAllZeros(Slice(buf, n, 32))

\* C6 witness: a credential whose document number is shorter than the
\* buffer and has no zero byte of its own.
C6_Witness ==
    /\ FromParsed
    /\ Len(SentDocNumber) > 0
    /\ Len(SentDocNumber) < 32
    /\ \A i \in 1..Len(SentDocNumber) : SentDocNumber[i] # 0

\* C8: when proveState is set, proven_state in the witness and provenState
\* in the public inputs are bytes 66 and 67 (0-based) of the 107-byte
\* jurisdiction claim buffer; when it is not set they are [0, 0].
C8_ProvenState ==
    (proof.st = "ok" /\ Len(credential.val.stateClaimBytes) = 107) =>
        LET expected == IF proofOpts.val.proveState = <<"bool", TRUE>>
                        THEN <<credential.val.stateClaimBytes[67],
                               credential.val.stateClaimBytes[68]>>
                        ELSE <<0, 0>>
        IN  /\ proof.val.witnessInputs.proven_state = expected
            /\ proof.val.publicInputs.provenState = expected

\* C8 witness: a proof with proveState set over a claim holding "CA".
C8_Witness ==
    /\ proof.st = "ok"
    /\ proofOpts.val.proveState = <<"bool", TRUE>>
    /\ Len(credential.val.stateClaimBytes) = 107
    /\ proof.val.witnessInputs.proven_state = <<67, 65>>
    /\ proof.val.publicInputs.provenState = <<67, 65>>

\* C9 as stated: parsing a credential whose validUntil is earlier than the
\* time of parsing fails with the EXPIRED kind and yields no credential.
C9_ExpiredRejected ==
    (/\ parsed.st # "none"
     /\ rawCred.val.issuerAuth.n >= 4
     /\ parseDate(rawCred.val.issuerAuth.payload.validityInfo.validUntil) < parsedAt)
        => (parsed.st = "err" /\ parsed.code = "EXPIRED")

\* C10: for every claim item of the selected document, the ParsedClaim that
\* parsing produces for its identifier carries the bytes of an item as the
\* wallet sent it (of the last one, when an identifier repeats), never a
\* re-encoding of the decoded value.
C10_RawBytesPreserved ==
    parsed.st = "ok" =>
        LET sent == SelectedItemBytes(received.val)
            idOf(i) == decode(sent[i]).obj.elementIdentifier
            claims == parsed.val.claims
        IN  /\ Len(rawCred.val.items) = Len(sent)
            /\ \A i \in 1..Len(sent) :
                   /\ rawCred.val.items[i].rawBytes = sent[i]
                   /\ idOf(i) \in DOMAIN claims
                   /\ \/ claims[idOf(i)].bytes = sent[i]
                      \/ \E j \in (i + 1)..Len(sent) : idOf(j) = idOf(i)
            /\ \A id \in DOMAIN claims :
                   \E i \in 1..Len(sent) : idOf(i) = id /\ claims[id].bytes = sent[i]

\* C10 witness: a parsed credential one of whose items the wallet did not
\* encode the way the SDK's encoder would.
C10_Witness ==
    /\ parsed.st = "ok"
    /\ \E i \in 1..Len(SelectedItemBytes(received.val)) :
           LET b == SelectedItemBytes(received.val)[i]
           IN  encode(decode(b).obj) # b

(***************************************************************************)
(* Two independent callers of prover.ts on one page.  Each calls           *)
(* initProver and then generateProof, and may call destroyProver when its  *)
(* proof is done.  A step runs from one await to the next.                 *)
(***************************************************************************)
FlowCircuits == {"thurin.json", "other.json"}

\* Barretenberg.new() called by flow f: a new instance.
NewBarretenberg(f) == IF f = 1 THEN "bb1" ELSE "bb2"

\* initProver: "Skip if already initialized with same circuit".
AlreadyInitialized(circuit) == currentCircuit = circuit /\ noir # "null" /\ backend # "null"

\* Mutant of initProverFinish: the proving backend is not rebuilt.
initProverFinish_KeepBackend(circuit, api) ==
    [noir |-> circuit, backend |-> backend, backendApi |-> engine.backendApi,
     currentCircuit |-> circuit]

\* initProver from "new Noir(circuit)" to its end, with the Barretenberg
\* instance api.
initProverFinish(circuit, api) ==
    [noir |-> circuit, backend |-> circuit, backendApi |-> api, currentCircuit |-> circuit]

\* generateProof of a flow that runs alone: with the circuit it initialized.
AloneOutcome(circuit) == Ok([witness |-> circuit, proof |-> circuit])

SetFlow(f, r) == [flows EXCEPT ![f] = r]

\* initProver(circuit) up to its await of Barretenberg.new(), or to its end
\* when there is nothing to await.
FlowInitProver(f) ==
    \E circuit \in FlowCircuits :
        /\ flows[f].pc = "idle"
        /\ IF AlreadyInitialized(circuit)
           THEN /\ flows' = SetFlow(f, [flows[f] EXCEPT !.pc = "inited", !.circuit = circuit])
                /\ UNCHANGED <<proverVars, engine>>
           ELSE IF barretenbergAPI = "null"
           THEN /\ flows' = SetFlow(f, [flows[f] EXCEPT !.pc = "awaitNew", !.circuit = circuit])
                /\ UNCHANGED <<proverVars, engine>>
           ELSE LET r == initProverFinish(circuit, barretenbergAPI)
                IN  /\ noir' = r.noir
                    /\ backend' = r.backend
                    /\ currentCircuit' = r.currentCircuit
                    /\ engine' = [engine EXCEPT !.backendApi = r.backendApi]
                    /\ flows' = SetFlow(f, [flows[f] EXCEPT !.pc = "inited",
                                                            !.circuit = circuit])
                    /\ UNCHANGED barretenbergAPI
        /\ UNCHANGED notFlows

\* initProver after Barretenberg.new() resolved.
FlowInitProverResume(f) ==
    /\ flows[f].pc = "awaitNew"
    /\ LET r == initProverFinish(flows[f].circuit, NewBarretenberg(f))
       IN  /\ barretenbergAPI' = NewBarretenberg(f)
           /\ noir' = r.noir
           /\ backend' = r.backend
           /\ currentCircuit' = r.currentCircuit
           /\ engine' = [engine EXCEPT !.backendApi = r.backendApi]
    /\ flows' = SetFlow(f, [flows[f] EXCEPT !.pc = "inited"])
    /\ UNCHANGED notFlows

\* A generateProof call ends with outcome o.
FlowEnd(f, o) ==
    [flows[f] EXCEPT !.pc = "done", !.out = o, !.afterDestroy = engine.destroyCalled]

\* generateProof up to the first await inside buildWitnessInputs
\* (computeIacaRoot's poseidon2Hash on the instance passed to it).
FlowGenerateProof(f) ==
    /\ flows[f].pc = "inited"
    /\ flows' = SetFlow(f,
           IF noir = "null" \/ backend = "null" \/ barretenbergAPI = "null"
           THEN FlowEnd(f, Err("Prover not initialized"))
           ELSE IF barretenbergAPI \in engine.destroyed THEN FlowEnd(f, Err("Error"))
           ELSE [flows[f] EXCEPT !.pc = "awaitIacaRoot", !.bb = barretenbergAPI])
    /\ UNCHANGED <<proverVars, engine, notFlows>>

\* buildWitnessInputs after computeIacaRoot: computeNullifier's
\* poseidon2Hash on the same instance.
FlowComputeNullifier(f) ==
    /\ flows[f].pc = "awaitIacaRoot"
    /\ flows' = SetFlow(f,
           IF flows[f].bb \in engine.destroyed THEN FlowEnd(f, Err("Error"))
           ELSE [flows[f] EXCEPT !.pc = "awaitNullifier"])
    /\ UNCHANGED <<proverVars, engine, notFlows>>

\* generateProof after buildWitnessInputs: noir.execute(witnessInputs) on
\* the singleton as it is now.
FlowExecute(f) ==
    /\ flows[f].pc = "awaitNullifier"
    /\ flows' = SetFlow(f,
           IF noir = "null" THEN FlowEnd(f, Err("TypeError"))
           ELSE [flows[f] EXCEPT !.pc = "awaitExecute", !.witnessBy = noir])
    /\ UNCHANGED <<proverVars, engine, notFlows>>

\* generateProof after noir.execute: backend.generateProof(witness) on the
\* singleton as it is now, and the return.
FlowProve(f) ==
    /\ flows[f].pc = "awaitExecute"
    /\ flows' = SetFlow(f,
           IF backend = "null" THEN FlowEnd(f, Err("TypeError"))
           ELSE IF engine.backendApi \in engine.destroyed THEN FlowEnd(f, Err("Error"))
           ELSE FlowEnd(f, Ok([witness |-> flows[f].witnessBy, proof |-> backend])))
    /\ UNCHANGED <<proverVars, engine, notFlows>>

\* destroyProver() up to its await of barretenbergAPI.destroy(), or to its
\* end when there is no instance.
FlowDestroyProver(f) ==
    /\ flows[f].pc = "done"
    /\ backend' = "null"
    /\ IF barretenbergAPI # "null"
       THEN /\ engine' = [engine EXCEPT !.destroyed = @ \cup {barretenbergAPI},
                                        !.backendApi = "null", !.destroyCalled = TRUE]
            /\ flows' = SetFlow(f, [flows[f] EXCEPT !.pc = "awaitDestroy"])
            /\ UNCHANGED <<noir, currentCircuit, barretenbergAPI>>
       ELSE /\ engine' = [engine EXCEPT !.backendApi = "null", !.destroyCalled = TRUE]
            /\ noir' = "null"
            /\ currentCircuit' = "null"
            /\ flows' = SetFlow(f, [flows[f] EXCEPT !.pc = "end"])
            /\ UNCHANGED barretenbergAPI
    /\ UNCHANGED notFlows

\* destroyProver after destroy() resolved.
FlowDestroyProverResume(f) ==
    /\ flows[f].pc = "awaitDestroy"
    /\ barretenbergAPI' = "null"
    /\ noir' = "null"
    /\ currentCircuit' = "null"
    /\ flows' = SetFlow(f, [flows[f] EXCEPT !.pc = "end"])
    /\ UNCHANGED <<backend, engine, notFlows>>

NextFlows ==
    \E f \in 1..2 :
        \/ FlowInitProver(f)
        \/ FlowInitProverResume(f)
        \/ FlowGenerateProof(f)
        \/ FlowComputeNullifier(f)
        \/ FlowExecute(f)
        \/ FlowProve(f)
        \/ FlowDestroyProver(f)
        \/ FlowDestroyProverResume(f)

SpecFlows == InitAll /\ [][NextFlows]_vars

Finished(f) == flows[f].pc \in {"done", "awaitDestroy", "end"}

\* C12 as stated: in every interleaving of two flows that each call
\* initProver and then generateProof, one of them possibly calling
\* destroyProver when it is done, each flow's generateProof outcome is the
\* one it has when it runs alone.
C12_Isolated ==
    \A f \in 1..2 : Finished(f) => flows[f].out = AloneOutcome(flows[f].circuit)

\* C12 amended: the flows share the singletons of prover.ts; a flow's
\* generateProof outcome is the one it has when it runs alone provided the
\* other flow has not called initProver with another circuit and no
\* destroyProver call began before that generateProof returned.
C12_SameCircuitNoDestroy ==
    \A f \in 1..2 :
        (/\ Finished(f)
         /\ ~flows[f].afterDestroy
         /\ flows[3 - f].circuit \in {"null", flows[f].circuit})
            => flows[f].out = AloneOutcome(flows[f].circuit)

\* C12 witness: both flows have their proofs, their calls having
\* overlapped: the second entered initProver while the first awaited
\* Barretenberg.new().
C12_Witness ==
    /\ Finished(1)
    /\ Finished(2)
    /\ flows[1].circuit = flows[2].circuit
    /\ flows[1].bb = "bb1"
    /\ barretenbergAPI = "bb2"
    /\ flows[1].out = AloneOutcome(flows[1].circuit)
    /\ flows[2].out = AloneOutcome(flows[2].circuit)

(***************************************************************************)
(* ThurinSBT.sol                                                           *)
(***************************************************************************)
OG_PRICE == 600000
KINDA_COOL_PRICE == 1000000
OG_SUPPLY == 500
KINDA_COOL_SUPPLY == 1500

\* Mutant of getMintPrice: the tiers end one token late.
getMintPrice_Inclusive(supply, mintPrice) ==
    IF supply <= OG_SUPPLY THEN OG_PRICE
    ELSE IF supply <= KINDA_COOL_SUPPLY THEN KINDA_COOL_PRICE
    ELSE mintPrice

\* getMintPrice(), from totalSupply() and the mintPrice in storage.
getMintPrice(supply, mintPrice) ==
    IF supply < OG_SUPPLY THEN OG_PRICE
    ELSE IF supply < KINDA_COOL_SUPPLY THEN KINDA_COOL_PRICE
    ELSE mintPrice

DAYS_1970_TO_2020 == 18262
PROOF_DATE_TOLERANCE_DAYS == 1
MIN_VALIDITY_PERIOD == DAY
MINT_POINTS == 100
REFERRAL_POINTS == 50
\* type(uint256).max, the referrerTokenId that means no referral.
NO_REFERRER == 2147483647

\* A revert with the named error, and a return with the storage left.
Revert(e) == [st |-> "revert", err |-> e]
Done(s) == [st |-> "ok", store |-> s]

\* _timestampToYYYYMMDD(timestamp)
timestampToYYYYMMDD(timestamp) ==
    LET daysSinceEpoch == timestamp \div DAY
        daysSince2020 == IF daysSinceEpoch > DAYS_1970_TO_2020
                         THEN daysSinceEpoch - DAYS_1970_TO_2020 ELSE 0
        year == 2020 + (daysSince2020 \div 365)
        dayOfYear == daysSince2020 % 365
        month == Min((dayOfYear \div 30) + 1, 12)
        day == Min((dayOfYear % 30) + 1, 28)
    IN  year * 10000 + month * 100 + day

\* totalSupply()
totalSupply(s) == s.tokenIdCounter

\* getCurrentTier()
getCurrentTier(s) ==
    IF totalSupply(s) < OG_SUPPLY THEN "OG"
    ELSE IF totalSupply(s) < KINDA_COOL_SUPPLY THEN "KindaCool"
    ELSE "Standard"

\* ERC721._ownerOf and ERC721.balanceOf
ownerOfToken(s, tokenId) ==
    IF tokenId \in TokenIds THEN s.owners[tokenId] ELSE ZERO_ADDRESS
balanceOf(s, a) == Cardinality({id \in TokenIds : s.owners[id] = a})

\* isValid(user) and getExpiry(user) at block.timestamp ts.
isValid(s, user, ts) ==
    IF balanceOf(s, user) = 0 THEN FALSE
    ELSE ts <= s.tokenMintTimestamp[s.userTokenId[user]] + s.validityPeriod
getExpiry(s, user) ==
    IF balanceOf(s, user) = 0 THEN 0
    ELSE s.tokenMintTimestamp[s.userTokenId[user]] + s.validityPeriod

\* _validateProofParams(p): the error it reverts with, or "ok".
validateProofParams(s, p, ts) ==
    LET today == timestampToYYYYMMDD(ts)
    IN  IF p.proofDate > today + PROOF_DATE_TOLERANCE_DAYS THEN "ProofDateFromFuture"
        ELSE IF p.proofDate < today - PROOF_DATE_TOLERANCE_DAYS THEN "ProofDateTooOld"
        ELSE IF p.iacaRoot \notin s.trustedIACARoots THEN "UntrustedIACA"
        ELSE "ok"

\* Mutant of update: transfers are let through to ERC721._update.
update_Transferable(s, to, tokenId, auth) ==
    LET from == ownerOfToken(s, tokenId)
    IN  IF auth # ZERO_ADDRESS /\ from = ZERO_ADDRESS THEN Revert("ERC721NonexistentToken")
        ELSE IF /\ auth # ZERO_ADDRESS
                /\ auth # from
                /\ <<from, auth>> \notin s.operatorApprovals
                /\ s.tokenApprovals[tokenId] # auth
        THEN Revert("ERC721InsufficientApproval")
        ELSE [st |-> "ok", from |-> from,
              store |-> [s EXCEPT !.owners[tokenId] = to,
                                  !.tokenApprovals[tokenId] = ZERO_ADDRESS]]

\* _update(to, tokenId, auth): the soulbound check, then ERC721._update,
\* which checks auth when it is not zero, moves the token and clears its
\* approval.  Returns the previous owner.
update(s, to, tokenId, auth) ==
    LET from == ownerOfToken(s, tokenId)
    IN  IF from # ZERO_ADDRESS /\ to # ZERO_ADDRESS THEN Revert("Soulbound")
        ELSE IF auth # ZERO_ADDRESS /\ from = ZERO_ADDRESS THEN Revert("ERC721NonexistentToken")
        ELSE IF /\ auth # ZERO_ADDRESS
                /\ auth # from
                /\ <<from, auth>> \notin s.operatorApprovals
                /\ s.tokenApprovals[tokenId] # auth
        THEN Revert("ERC721InsufficientApproval")
        ELSE [st |-> "ok", from |-> from,
              store |-> [s EXCEPT !.owners[tokenId] = to,
                                  !.tokenApprovals[tokenId] = ZERO_ADDRESS]]

\* ERC721.transferFrom(from, to, tokenId) called by caller;
\* safeTransferFrom calls it first.
transferFrom(s, caller, from, to, tokenId) ==
    IF to = ZERO_ADDRESS THEN Revert("ERC721InvalidReceiver")
    ELSE LET u == update(s, to, tokenId, caller)
         IN  IF u.st = "revert" THEN u
             ELSE IF u.from # from THEN Revert("ERC721IncorrectOwner")
             ELSE Done(u.store)

\* ERC721.approve(to, tokenId) called by caller.
approve(s, caller, to, tokenId) ==
    LET owner == ownerOfToken(s, tokenId)
    IN  IF owner = ZERO_ADDRESS THEN Revert("ERC721NonexistentToken")
        ELSE IF caller # owner /\ <<owner, caller>> \notin s.operatorApprovals
        THEN Revert("ERC721InvalidApprover")
        ELSE Done([s EXCEPT !.tokenApprovals[tokenId] = to])

\* The refund of an excess payment: the call to msg.sender may fail.
Refund(s, value, price, refundOk) ==
    IF value > price /\ ~refundOk THEN Revert("WithdrawFailed") ELSE Done(s)

\* Mutant of ResetValidity: the timestamp is left as it is.
ResetValidity_Keep(s, sender, ts) == s

\* renew: "Reset validity timestamp".
ResetValidity(s, sender, ts) == [s EXCEPT !.tokenMintTimestamp[s.userTokenId[sender]] = ts]

\* renew(proof, nullifier, ..., provenState) with msg.sender and msg.value.
renew(s, sender, value, p, ts, refundOk) ==
    IF balanceOf(s, sender) = 0 THEN Revert("NoSBTToRenew")
    ELSE IF value < s.renewalPrice THEN Revert("InsufficientPayment")
    ELSE IF validateProofParams(s, p, ts) # "ok" THEN Revert(validateProofParams(s, p, ts))
    ELSE IF ~p.proofOk THEN Revert("InvalidProof")
    ELSE Refund(ResetValidity(s, sender, ts), value, s.renewalPrice, refundOk)

\* Mutant of HasSBT: no address counts as a holder.
HasSBT_Never(s, sender) == FALSE

\* mint: "Check user doesn't already have SBT".
HasSBT(s, sender) == balanceOf(s, sender) > 0

\* Mutant of MarkNullifier: the nullifier is not recorded.
MarkNullifier_Skip(s, nullifier) == s

\* mint: "Mark nullifier used".
MarkNullifier(s, nullifier) == [s EXCEPT !.nullifierUsed = @ \cup {nullifier}]

\* What onERC721Received of a contract that mints does during _safeMint.
Callbacks == {"accept", "reject", "renew"}

\* Mutant of HandleReferral: the owner of the named token is credited
\* even when it is the minter.
HandleReferral_Self(s, sender, tokenId, referrerTokenId) ==
    IF referrerTokenId # NO_REFERRER /\ ownerOfToken(s, referrerTokenId) # ZERO_ADDRESS
    THEN LET referrer == ownerOfToken(s, referrerTokenId)
         IN  [s EXCEPT !.referralCount[referrerTokenId] = @ + 1,
                       !.referredBy[tokenId] = referrer,
                       !.points[referrer] = @ + REFERRAL_POINTS]
    ELSE s

\* mint: "Handle referral".
HandleReferral(s, sender, tokenId, referrerTokenId) ==
    IF referrerTokenId # NO_REFERRER /\ ownerOfToken(s, referrerTokenId) # ZERO_ADDRESS
    THEN LET referrer == ownerOfToken(s, referrerTokenId)
         IN  IF referrer # sender
             THEN [s EXCEPT !.referralCount[referrerTokenId] = @ + 1,
                            !.referredBy[tokenId] = referrer,
                            !.points[referrer] = @ + REFERRAL_POINTS]
             ELSE s
    ELSE s

\* mint from the nullifierUsed write to _safeMint: the storage in which
\* _safeMint calls onERC721Received of a sender that is a contract, or
\* the revert of ERC721._update.
safeMint(s, sender, p) ==
    LET tokenId == s.tokenIdCounter
        counted == [MarkNullifier(s, p.nullifier) EXCEPT !.tokenIdCounter = @ + 1]
        tiered == [counted EXCEPT !.tokenTier[tokenId] = getCurrentTier(counted)]
    IN  update(tiered, sender, tokenId, ZERO_ADDRESS)

\* mint(proof, nullifier, ..., referrerTokenId) with msg.sender and
\* msg.value.  _safeMint calls onERC721Received of a sender that is a
\* contract before the mint timestamp and userTokenId are written.
mint(s, sender, value, p, referrerTokenId, ts, callback, refundOk) ==
    LET price == getMintPrice(totalSupply(s), s.mintPrice)
        tokenId == s.tokenIdCounter
        minted == safeMint(s, sender, p)
        called == IF sender \in ReceiverContracts /\ callback = "renew"
                  THEN renew(minted.store, sender, minted.store.renewalPrice, p, ts, TRUE)
                  ELSE Done(minted.store)
        written == [called.store EXCEPT !.tokenMintTimestamp[tokenId] = ts,
                                        !.userTokenId[sender] = tokenId]
        referred == HandleReferral(written, sender, tokenId, referrerTokenId)
        awarded == [referred EXCEPT !.points[sender] = @ + MINT_POINTS]
    IN  IF HasSBT(s, sender) THEN Revert("AlreadyHasSBT")
        ELSE IF value < price THEN Revert("InsufficientPayment")
        ELSE IF validateProofParams(s, p, ts) # "ok" THEN Revert(validateProofParams(s, p, ts))
        ELSE IF p.nullifier \in s.nullifierUsed THEN Revert("NullifierAlreadyUsed")
        ELSE IF ~p.proofOk THEN Revert("InvalidProof")
        ELSE IF minted.st = "revert" THEN minted
        ELSE IF sender \in ReceiverContracts /\ callback = "reject"
        THEN Revert("ERC721InvalidReceiver")
        ELSE IF called.st = "revert" THEN called
        ELSE Refund(awarded, value, price, refundOk)

(***************************************************************************)
(* ThurinVerifier.sol                                                      *)
(***************************************************************************)
\* Mutant of CountVerification: every dApp's count goes up.
CountVerification_All(v, sender) ==
    [v EXCEPT !.dappVerificationCount = [d \in DOMAIN @ |-> @[d] + 1]]

\* verify: dappVerificationCount[msg.sender]++
CountVerification(v, sender) == [v EXCEPT !.dappVerificationCount[sender] = @ + 1]

\* Mutant of hasValidSBT: holding an SBT is enough.
hasValidSBT_AnyHolder(s, user, ts) == balanceOf(s, user) > 0

\* sbt.isValid(user), as ThurinVerifier calls it.
hasValidSBT(s, user, ts) == isValid(s, user, ts)

\* verify(user, proof, ..., provenState) called by the dApp sender.
verify(v, s, sender, user, p, ts) ==
    LET today == timestampToYYYYMMDD(ts)
    IN  IF ~hasValidSBT(s, user, ts) THEN Revert("NoValidSBT")
        ELSE IF p.proofDate > today + PROOF_DATE_TOLERANCE_DAYS
        THEN Revert("ProofDateFromFuture")
        ELSE IF p.proofDate < today - PROOF_DATE_TOLERANCE_DAYS THEN Revert("ProofDateTooOld")
        ELSE IF ~p.proofOk THEN Revert("InvalidProof")
        ELSE Done(CountVerification(v, sender))

\* Supplies up to MaxProbe around zero and around both tier limits, and
\* standard prices the owner may have set.
MaxProbe == 2
Supplies ==
    (0..MaxProbe)
    \cup ((OG_SUPPLY - MaxProbe)..(OG_SUPPLY + MaxProbe))
    \cup ((KINDA_COOL_SUPPLY - MaxProbe)..(KINDA_COOL_SUPPLY + MaxProbe))
MintPrices ==
    {0, 1, OG_PRICE, KINDA_COOL_PRICE, INITIAL_MINT_PRICE, 2 * INITIAL_MINT_PRICE, ETHER,
     2 * ETHER}

GetMintPrice ==
    /\ \E supply \in Supplies, mintPrice \in MintPrices :
           priceCall' = Ok([supply |-> supply, mintPrice |-> mintPrice,
                            price |-> getMintPrice(supply, mintPrice)])
    /\ UNCHANGED notPrice

NextPrice == GetMintPrice

SpecPrice == InitAll /\ [][NextPrice]_vars

\* mint at a total supply of supply: the id of the new token, the price
\* the minter is charged (read before _tokenIdCounter++) and the tier
\* recorded for the token (read after it).
MintAtSupply ==
    /\ \E supply \in Supplies, mintPrice \in MintPrices :
           LET before == [tokenIdCounter |-> supply]
               counted == [before EXCEPT !.tokenIdCounter = @ + 1]
           IN  tierCall' = Ok([tokenId |-> before.tokenIdCounter,
                               mintPrice |-> mintPrice,
                               price |-> getMintPrice(totalSupply(before), mintPrice),
                               tierAtCall |-> getCurrentTier(before),
                               tokenTier |-> getCurrentTier(counted)])
    /\ UNCHANGED <<dateCall, notProbe>>

NextTier == MintAtSupply

SpecTier == InitAll /\ [][NextTier]_vars

\* _timestampToYYYYMMDD at the start and at the last second of each of
\* the MaxDays days from 2020-01-01, and of the days around deployment.
MaxDays == 400
ProbeDays ==
    {DAYS_1970_TO_2020 + d : d \in 0..(MaxDays - 1)}
    \cup {(GENESIS \div DAY) + d : d \in -MaxProbe..MaxProbe}
ProbeTimestamps == {day * DAY + t : day \in ProbeDays, t \in {0, DAY - 1}}

ConvertTimestamp ==
    /\ \E timestamp \in ProbeTimestamps :
           dateCall' = Ok([timestamp |-> timestamp,
                           date |-> timestampToYYYYMMDD(timestamp)])
    /\ UNCHANGED <<tierCall, notProbe>>

NextCalendar == ConvertTimestamp

SpecCalendar == InitAll /\ [][NextCalendar]_vars

MaxWarps == 2
MaxVerifications == 2

Nullifiers == {"n1", "n2"}
IacaRoots == {"rootCA"}
\* Proof dates, as days from the contract's date of today.
ProofDateOffsets == {-2, 2}

\* A proof of today under a trusted root that the verifier accepts.
GoodProof(nullifier, ts) ==
    [nullifier |-> nullifier, proofDate |-> timestampToYYYYMMDD(ts), eventId |-> "event",
     iacaRoot |-> CHOOSE r \in IacaRoots : TRUE, proofOk |-> TRUE]

\* The proof arguments of mint, renew and verify; proofOk is what
\* honkVerifier.verify returns for them.  A good proof, and the same with
\* another date or with a proof the verifier rejects.
ProofArgs(ts) ==
    UNION {{GoodProof(n, ts), [GoodProof(n, ts) EXCEPT !.proofOk = FALSE]}
           \cup {[GoodProof(n, ts) EXCEPT !.proofDate = @ + o] : o \in ProofDateOffsets} :
               n \in Nullifiers}

\* The calls of mint by sender: an exact payment with a good proof and no
\* referral, and the same with one argument changed.
MintCalls(sender, ts) ==
    LET exact(q) == [p |-> q, value |-> OG_PRICE, referrerTokenId |-> NO_REFERRER,
                     callback |-> "accept", refundOk |-> TRUE]
    IN  {exact(q) : q \in ProofArgs(ts)}
        \cup UNION {{[exact(GoodProof(n, ts)) EXCEPT !.value = OG_PRICE - 1],
                     [exact(GoodProof(n, ts)) EXCEPT !.value = OG_PRICE + 1],
                     [exact(GoodProof(n, ts)) EXCEPT !.value = OG_PRICE + 1,
                                                     !.refundOk = FALSE],
                     [exact(GoodProof(n, ts)) EXCEPT !.referrerTokenId = 0],
                     [exact(GoodProof(n, ts)) EXCEPT !.referrerTokenId = 1]}
                    \cup (IF sender \in ReceiverContracts
                          THEN {[exact(GoodProof(n, ts)) EXCEPT !.callback = c] :
                                    c \in Callbacks}
                          ELSE {}) : n \in Nullifiers}

\* The calls of renew: an exact payment with a good proof, and the same
\* with one argument changed.
RenewCalls(ts) ==
    LET exact(q) == [p |-> q, value |-> INITIAL_RENEWAL_PRICE, refundOk |-> TRUE]
    IN  {exact(q) : q \in ProofArgs(ts)}
        \cup UNION {{[exact(GoodProof(n, ts)) EXCEPT !.value = INITIAL_RENEWAL_PRICE - 1],
                     [exact(GoodProof(n, ts)) EXCEPT !.value = INITIAL_RENEWAL_PRICE + 1],
                     [exact(GoodProof(n, ts)) EXCEPT !.value = INITIAL_RENEWAL_PRICE + 1,
                                                     !.refundOk = FALSE]} : n \in Nullifiers}

\* mint as msg.sender calls it with the arguments c at block.timestamp.
MintResult(sender, c) ==
    mint(sbt, sender, c.value, c.p, c.referrerTokenId, blockTimestamp, c.callback, c.refundOk)

\* renew as msg.sender calls it with the arguments c at block.timestamp.
RenewResult(sender, c) == renew(sbt, sender, c.value, c.p, blockTimestamp, c.refundOk)

\* verify as the dApp sender calls it at block.timestamp.
VerifyResult(sender, user, p) == verify(verifier, sbt, sender, user, p, blockTimestamp)

\* vm.warp: time passes.
Warp ==
    /\ warps < MaxWarps
    /\ warps' = warps + 1
    /\ blockTimestamp' = blockTimestamp + INITIAL_VALIDITY_PERIOD
    /\ UNCHANGED <<sbt, verifier, mintLog, stampedAt, notChain>>

\* addIACARoot(root, stateName) by the owner.
AddIACARoot ==
    \E root \in IacaRoots :
        /\ sbt' = [sbt EXCEPT !.trustedIACARoots = @ \cup {root}]
        /\ UNCHANGED <<blockTimestamp, warps, verifier, mintLog, stampedAt, notChain>>

\* removeIACARoot(root) by the owner.
RemoveIACARoot ==
    \E root \in IacaRoots :
        /\ sbt' = [sbt EXCEPT !.trustedIACARoots = @ \ {root}]
        /\ UNCHANGED <<blockTimestamp, warps, verifier, mintLog, stampedAt, notChain>>

\* setValidityPeriod(_validityPeriod) by the owner; a period under
\* MIN_VALIDITY_PERIOD reverts with InvalidValidityPeriod.
SetValidityPeriod ==
    \E period \in {MIN_VALIDITY_PERIOD - 1, MIN_VALIDITY_PERIOD, INITIAL_VALIDITY_PERIOD} :
        /\ sbt' = IF period < MIN_VALIDITY_PERIOD THEN sbt
                  ELSE [sbt EXCEPT !.validityPeriod = period]
        /\ UNCHANGED <<blockTimestamp, warps, verifier, mintLog, stampedAt, notChain>>

\* A transaction calling mint; a revert leaves the storage as it was.
Mint ==
    \E sender \in Addresses : \E c \in MintCalls(sender, blockTimestamp) :
        LET r == MintResult(sender, c)
        IN  /\ r.st = "ok" => sbt.tokenIdCounter \in TokenIds
            /\ sbt' = IF r.st = "ok" THEN r.store ELSE sbt
            /\ mintLog' = IF r.st = "ok"
                          THEN Append(mintLog, [minter |-> sender, nullifier |-> c.p.nullifier,
                                                tokenId |-> sbt.tokenIdCounter])
                          ELSE mintLog
            /\ stampedAt' = IF r.st = "ok" THEN [stampedAt EXCEPT ![sender] = blockTimestamp]
                            ELSE stampedAt
            /\ UNCHANGED <<blockTimestamp, warps, verifier, notChain>>

\* A transaction calling renew.
Renew ==
    \E sender \in Addresses, c \in RenewCalls(blockTimestamp) :
        LET r == RenewResult(sender, c)
        IN  /\ sbt' = IF r.st = "ok" THEN r.store ELSE sbt
            /\ stampedAt' = IF r.st = "ok" THEN [stampedAt EXCEPT ![sender] = blockTimestamp]
                            ELSE stampedAt
            /\ UNCHANGED <<blockTimestamp, warps, verifier, mintLog, notChain>>

\* approve(to, tokenId)
Approve ==
    \E caller \in Addresses, to \in {"bob", ZERO_ADDRESS}, tokenId \in TokenIds :
        LET r == approve(sbt, caller, to, tokenId)
        IN  /\ sbt' = IF r.st = "ok" THEN r.store ELSE sbt
            /\ UNCHANGED <<blockTimestamp, warps, verifier, mintLog, stampedAt, notChain>>

\* setApprovalForAll(operator, approved)
SetApprovalForAll ==
    \E caller \in Accounts, approved \in BOOLEAN :
        /\ sbt' = [sbt EXCEPT !.operatorApprovals =
                                  IF approved THEN @ \cup {<<caller, "receiver">>}
                                  ELSE @ \ {<<caller, "receiver">>}]
        /\ UNCHANGED <<blockTimestamp, warps, verifier, mintLog, stampedAt, notChain>>

\* Whether caller may move tokenId by ERC721's rules: its owner, its
\* approved address or an operator of its owner.
IsAuthorized(caller, tokenId) ==
    \/ caller = ownerOfToken(sbt, tokenId)
    \/ sbt.tokenApprovals[tokenId] = caller
    \/ <<ownerOfToken(sbt, tokenId), caller>> \in sbt.operatorApprovals

\* transferFrom(from, to, tokenId) and safeTransferFrom(from, to, tokenId)
TransferFrom ==
    \E caller \in Addresses, from \in Addresses, to \in Addresses \cup {ZERO_ADDRESS},
       tokenId \in TokenIds :
        LET r == transferFrom(sbt, caller, from, to, tokenId)
        IN  /\ sbt' = IF r.st = "ok" THEN r.store ELSE sbt
            /\ UNCHANGED <<blockTimestamp, warps, verifier, mintLog, stampedAt, notChain>>

\* ThurinVerifier.verify called by a dApp.
Verify ==
    \E sender \in Dapps, user \in Addresses, p \in ProofArgs(blockTimestamp) :
        LET r == VerifyResult(sender, user, p)
        IN  /\ r.st = "ok" => verifier.dappVerificationCount[sender] < MaxVerifications
            /\ verifier' = IF r.st = "ok" THEN r.store ELSE verifier
            /\ UNCHANGED <<blockTimestamp, warps, sbt, mintLog, stampedAt, notChain>>

\* Minting, renewing and the passing of time.
NextSbt ==
    \/ Warp
    \/ AddIACARoot
    \/ RemoveIACARoot
    \/ SetValidityPeriod
    \/ Mint
    \/ Renew

SpecSbt == InitAll /\ [][NextSbt]_vars

\* Minting, renewing, approvals and transfer attempts.
NextSoulbound ==
    \/ AddIACARoot
    \/ Mint
    \/ Renew
    \/ Approve
    \/ SetApprovalForAll
    \/ TransferFrom

SpecSoulbound == InitAll /\ [][NextSoulbound]_vars

\* Holders and the dApps that verify them.
NextVerifier ==
    \/ Warp
    \/ AddIACARoot
    \/ Mint
    \/ Verify

SpecVerifier == InitAll /\ [][NextVerifier]_vars

\* vm.warp by a week at a time, up to MaxWeeks weeks after deployment.
MaxWeeks == 4
WEEK == 7 * DAY
WarpWeek ==
    /\ blockTimestamp + WEEK <= GENESIS + MaxWeeks * WEEK
    /\ blockTimestamp' = blockTimestamp + WEEK
    /\ UNCHANGED <<warps, sbt, verifier, mintLog, stampedAt, notChain>>

\* The contracts used over the weeks after deployment.
NextDate ==
    \/ WarpWeek
    \/ AddIACARoot
    \/ Mint
    \/ Renew
    \/ Verify

SpecDate == InitAll /\ [][NextDate]_vars

(***************************************************************************)
(* ThurinPoints.sol                                                        *)
(***************************************************************************)
POINTS_PER_VERIFICATION == 10
TOP_DAPPS_CAP == 100

\* Mutant of ClaimedPoints: every verification is paid again.
ClaimedPoints_All(totalVerifications, alreadyClaimed) ==
    totalVerifications * POINTS_PER_VERIFICATION

\* claimDappPoints: unclaimed * POINTS_PER_VERIFICATION
ClaimedPoints(totalVerifications, alreadyClaimed) ==
    (totalVerifications - alreadyClaimed) * POINTS_PER_VERIFICATION

\* claimDappPoints(dapp), with v the storage of ThurinVerifier.
claimDappPoints(t, v, dapp) ==
    LET totalVerifications == v.dappVerificationCount[dapp]
        alreadyClaimed == t.claimedVerifications[dapp]
    IN  IF totalVerifications <= alreadyClaimed THEN Revert("NothingToClaim")
        ELSE Done([t EXCEPT !.dappPoints[dapp] =
                                @ + ClaimedPoints(totalVerifications, alreadyClaimed),
                            !.claimedVerifications[dapp] = totalVerifications])

\* pendingDappPoints(dapp)
pendingDappPoints(t, v, dapp) ==
    LET totalVerifications == v.dappVerificationCount[dapp]
        alreadyClaimed == t.claimedVerifications[dapp]
    IN  IF totalVerifications <= alreadyClaimed THEN 0
        ELSE (totalVerifications - alreadyClaimed) * POINTS_PER_VERIFICATION

\* totalDappPoints(dapp)
totalDappPoints(v, dapp) == v.dappVerificationCount[dapp] * POINTS_PER_VERIFICATION

\* registerDapp(name) called by sender.
registerDapp(t, sender, name) ==
    IF sender \in t.dappRegistered THEN Revert("AlreadyRegistered")
    ELSE Done([t EXCEPT !.dappRegistered = @ \cup {sender},
                        !.dappName[sender] = name,
                        !.registeredDapps = Append(@, sender)])

\* getTopDapps: the inner loop over j, from j to count - 1.  Indices are
\* counted from 0 as in the contract; max is [idx, val].
RECURSIVE ScanDapps(_, _, _, _, _)
ScanDapps(t, v, used, j, max) ==
    IF j >= Len(t.registeredDapps) THEN max
    ELSE LET val == v.dappVerificationCount[t.registeredDapps[j + 1]]
         IN  ScanDapps(t, v, used, j + 1,
                       IF j \notin used /\ val > max.val THEN [idx |-> j, val |-> val]
                       ELSE max)

\* getTopDapps: the outer loop over i, from i to limit - 1.
RECURSIVE FillTop(_, _, _, _, _, _)
FillTop(t, v, limit, i, used, out) ==
    IF i >= limit THEN out
    ELSE LET max == ScanDapps(t, v, used, 0, [idx |-> 0, val |-> 0])
         IN  FillTop(t, v, limit, i + 1, used \cup {max.idx},
                     [dapps |-> Append(out.dapps, t.registeredDapps[max.idx + 1]),
                      verifications |-> Append(out.verifications, max.val)])

\* getTopDapps(limit)
getTopDapps(t, v, limit) ==
    LET count == Len(t.registeredDapps)
        capped == IF limit > TOP_DAPPS_CAP THEN TOP_DAPPS_CAP ELSE limit
        bounded == IF capped > count THEN count ELSE capped
    IN  FillTop(t, v, bounded, 0, {}, [dapps |-> <<>>, verifications |-> <<>>])

MaxLimit == 3
Limits == (0..MaxLimit) \cup {TOP_DAPPS_CAP + 1}

\* A transaction calling claimDappPoints; anyone may call it for any dApp.
ClaimDappPoints ==
    \E dapp \in Dapps :
        LET r == claimDappPoints(thurinPoints, verifier, dapp)
        IN  /\ thurinPoints' = IF r.st = "ok" THEN r.store ELSE thurinPoints
            /\ UNCHANGED <<topCall, notPoints>>

\* A transaction calling registerDapp.
RegisterDapp ==
    \E sender \in Dapps :
        LET r == registerDapp(thurinPoints, sender, "app")
        IN  /\ thurinPoints' = IF r.st = "ok" THEN r.store ELSE thurinPoints
            /\ UNCHANGED <<topCall, notPoints>>

\* A call of the view getTopDapps, at some verification counts of the
\* dApps in ThurinVerifier: the registry and counts read, and the result.
GetTopDapps ==
    \E limit \in Limits, counts \in [Dapps -> 0..MaxVerifications] :
        /\ topCall' = Ok([limit |-> limit,
                          registeredDapps |-> thurinPoints.registeredDapps,
                          counts |-> counts,
                          out |-> getTopDapps(thurinPoints, [dappVerificationCount |-> counts],
                                              limit)])
        /\ UNCHANGED <<thurinPoints, notPoints>>

\* dApps verifying holders and claiming their points.
NextPoints ==
    \/ AddIACARoot
    \/ RemoveIACARoot
    \/ Mint
    \/ Verify
    \/ ClaimDappPoints

SpecPoints == InitAll /\ [][NextPoints]_vars

\* dApps registering, and the leaderboard.
NextTop ==
    \/ RegisterDapp
    \/ GetTopDapps

SpecTop == InitAll /\ [][NextTop]_vars

(***************************************************************************)
(* Properties of ThurinSBT and ThurinVerifier                              *)
(***************************************************************************)
\* The nullifiers of the mints that succeeded so far.
MintedNullifiers == {mintLog[i].nullifier : i \in DOMAIN mintLog}

\* The checks of mint that come before the nullifierUsed check: the
\* sender holds no SBT, pays the price, and the proof parameters validate.
PassesEarlierChecks(sender, c) ==
    /\ ~HasSBT(sbt, sender)
    /\ c.value >= getMintPrice(totalSupply(sbt), sbt.mintPrice)
    /\ validateProofParams(sbt, c.p, blockTimestamp) = "ok"

\* No two successful mints used the same nullifier, and the nullifier of
\* every successful mint is still marked used.
NullifierSingleUse ==
    /\ \A i, j \in DOMAIN mintLog : mintLog[i].nullifier = mintLog[j].nullifier => i = j
    /\ MintedNullifiers \subseteq sbt.nullifierUsed

\* C13 as stated: a nullifier is accepted by at most one successful mint,
\* stays marked used, and every later mint with it, from any address and
\* with any other arguments, reverts with NullifierAlreadyUsed.
C13_UsedNullifierAlwaysSaysUsed ==
    /\ NullifierSingleUse
    /\ \A sender \in Addresses : \A c \in MintCalls(sender, blockTimestamp) :
           c.p.nullifier \in MintedNullifiers
               => MintResult(sender, c) = Revert("NullifierAlreadyUsed")

\* C13 amended: a nullifier is accepted by at most one successful mint,
\* stays marked used, and every later mint with it reverts; the error is
\* NullifierAlreadyUsed when the call passes the checks that come first,
\* and the error of the first failing check otherwise.
C13_UsedNullifierReverts ==
    /\ NullifierSingleUse
    /\ \A sender \in Addresses : \A c \in MintCalls(sender, blockTimestamp) :
           c.p.nullifier \in MintedNullifiers
               => /\ MintResult(sender, c).st = "revert"
                  /\ PassesEarlierChecks(sender, c)
                         => MintResult(sender, c) = Revert("NullifierAlreadyUsed")
                  /\ HasSBT(sbt, sender) => MintResult(sender, c) = Revert("AlreadyHasSBT")

\* One mint succeeded with a nullifier; another address that passes the
\* earlier checks is refused it with NullifierAlreadyUsed, and the holder
\* itself is refused it with AlreadyHasSBT.
C13_Witness ==
    /\ Len(mintLog) = 1
    /\ \E sender \in Addresses \ {mintLog[1].minter} :
       \E c \in MintCalls(sender, blockTimestamp) :
           /\ c.p.nullifier = mintLog[1].nullifier
           /\ PassesEarlierChecks(sender, c)
           /\ MintResult(sender, c) = Revert("NullifierAlreadyUsed")
    /\ \E c \in MintCalls(mintLog[1].minter, blockTimestamp) :
           /\ c.p.nullifier = mintLog[1].nullifier
           /\ MintResult(mintLog[1].minter, c) = Revert("AlreadyHasSBT")

\* C14: every address holds at most one SBT, and every mint from an
\* address that holds one reverts with AlreadyHasSBT, whatever its
\* nullifier, payment and proof.
C14_AtMostOneSbt ==
    /\ \A a \in Addresses : balanceOf(sbt, a) <= 1
    /\ \A sender \in Addresses : \A c \in MintCalls(sender, blockTimestamp) :
           balanceOf(sbt, sender) > 0 => MintResult(sender, c) = Revert("AlreadyHasSBT")

\* A holder mints again with a nullifier nobody used, a full payment and
\* a good proof under a trusted root, and is refused with AlreadyHasSBT.
C14_Witness ==
    \E sender \in Addresses : \E n \in Nullifiers \ sbt.nullifierUsed :
        LET c == [p |-> GoodProof(n, blockTimestamp), value |-> OG_PRICE,
                  referrerTokenId |-> NO_REFERRER, callback |-> "accept", refundOk |-> TRUE]
        IN  /\ balanceOf(sbt, sender) = 1
            /\ c \in MintCalls(sender, blockTimestamp)
            /\ validateProofParams(sbt, c.p, blockTimestamp) = "ok"
            /\ MintResult(sender, c) = Revert("AlreadyHasSBT")

\* C15: every minted token is still owned by the address that minted it,
\* and every transferFrom / safeTransferFrom of an existing token to a
\* non-zero address reverts with Soulbound, whoever calls it, whatever
\* from it names and whatever approvals exist.
C15_NeverChangesOwner ==
    /\ \A i \in DOMAIN mintLog : ownerOfToken(sbt, mintLog[i].tokenId) = mintLog[i].minter
    /\ \A caller \in Addresses, from \in Addresses, to \in Addresses, tokenId \in TokenIds :
           ownerOfToken(sbt, tokenId) # ZERO_ADDRESS
               => transferFrom(sbt, caller, from, to, tokenId) = Revert("Soulbound")

\* A token whose owner approved one address for it and made another its
\* operator: the owner, the approved address and the operator are each
\* refused the transfer with Soulbound.
C15_Witness ==
    \E tokenId \in TokenIds :
        LET owner == ownerOfToken(sbt, tokenId)
            callers == {a \in Addresses : IsAuthorized(a, tokenId)}
        IN  /\ owner # ZERO_ADDRESS
            /\ sbt.tokenApprovals[tokenId] \in Addresses \ {owner}
            /\ \E operator \in Addresses \ {owner, sbt.tokenApprovals[tokenId]} :
                   <<owner, operator>> \in sbt.operatorApprovals
            /\ callers = Addresses
            /\ \A caller \in callers : \A to \in Addresses \ {owner} :
                   transferFrom(sbt, caller, owner, to, tokenId) = Revert("Soulbound")

\* C17: for an address holding an SBT, isValid is true exactly while
\* block.timestamp <= (the time of its own mint or latest renewal) +
\* validityPeriod; for an address without an SBT it is false.
C17_ValidUntilExpiry ==
    \A a \in Addresses :
        IF balanceOf(sbt, a) > 0
        THEN isValid(sbt, a, blockTimestamp)
                 <=> blockTimestamp <= stampedAt[a] + sbt.validityPeriod
        ELSE ~isValid(sbt, a, blockTimestamp)

\* C18: every renew that succeeds leaves getExpiry(holder) at
\* block.timestamp + validityPeriod and isValid(holder) true; and a holder
\* that minted or renewed at the current block.timestamp has that expiry.
C18_RenewRestartsValidity ==
    /\ \A sender \in Addresses : \A c \in RenewCalls(blockTimestamp) :
           LET r == RenewResult(sender, c)
           IN  r.st = "ok"
                   => /\ getExpiry(r.store, sender) = blockTimestamp + r.store.validityPeriod
                      /\ isValid(r.store, sender, blockTimestamp)
    /\ \A a \in Addresses :
           balanceOf(sbt, a) > 0 /\ stampedAt[a] = blockTimestamp
               => /\ getExpiry(sbt, a) = blockTimestamp + sbt.validityPeriod
                  /\ isValid(sbt, a, blockTimestamp)

\* A holder whose SBT has expired renews with the nullifier of its own
\* mint, and the renewal succeeds.
C18_Witness ==
    \E i \in DOMAIN mintLog : \E c \in RenewCalls(blockTimestamp) :
        /\ ~isValid(sbt, mintLog[i].minter, blockTimestamp)
        /\ getExpiry(sbt, mintLog[i].minter) < blockTimestamp
        /\ c.p.nullifier = mintLog[i].nullifier
        /\ c.p.nullifier \in sbt.nullifierUsed
        /\ RenewResult(mintLog[i].minter, c).st = "ok"
        /\ isValid(RenewResult(mintLog[i].minter, c).store, mintLog[i].minter, blockTimestamp)

\* C19: verify succeeds only for a user whose SBT sbt.isValid reports
\* valid at the time of the call; for a user with no SBT or with an SBT
\* past its expiry it reverts with NoValidSBT, whatever the dApp, the
\* proof and its date.
C19_VerifyNeedsValidSbt ==
    \A sender \in Dapps, user \in Addresses, p \in ProofArgs(blockTimestamp) :
        LET r == VerifyResult(sender, user, p)
        IN  /\ r.st = "ok" => isValid(sbt, user, blockTimestamp)
            /\ ~isValid(sbt, user, blockTimestamp) => r = Revert("NoValidSBT")
            /\ balanceOf(sbt, user) = 0 \/ blockTimestamp > getExpiry(sbt, user)
                   => r = Revert("NoValidSBT")

\* One user holds an expired SBT and another holds none; a dApp verifies
\* each with a good proof and is refused with NoValidSBT.
C19_Witness ==
    \E sender \in Dapps, expired \in Addresses, absent \in Addresses, n \in Nullifiers :
        /\ balanceOf(sbt, expired) = 1
        /\ blockTimestamp > getExpiry(sbt, expired)
        /\ balanceOf(sbt, absent) = 0
        /\ VerifyResult(sender, expired, GoodProof(n, blockTimestamp)) = Revert("NoValidSBT")
        /\ VerifyResult(sender, absent, GoodProof(n, blockTimestamp)) = Revert("NoValidSBT")

C21_PointsConserved ==
    /\ \A d \in Dapps :
           /\ thurinPoints.dappPoints[d] + pendingDappPoints(thurinPoints, verifier, d)
                  = totalDappPoints(verifier, d)
           /\ totalDappPoints(verifier, d) = 10 * verifier.dappVerificationCount[d]
    /\ \A dapp \in Dapps :
           LET r == claimDappPoints(thurinPoints, verifier, dapp)
           IN  r.st = "ok"
                   => /\ r.store.dappPoints
                             = [d \in Dapps |->
                                    IF d = dapp
                                    THEN thurinPoints.dappPoints[d]
                                             + pendingDappPoints(thurinPoints, verifier, d)
                                    ELSE thurinPoints.dappPoints[d]]
                      /\ pendingDappPoints(r.store, verifier, dapp) = 0
                      /\ r.store.dappPoints[dapp] = totalDappPoints(verifier, dapp)

\* A dApp claimed the points of its first verification and has verified
\* again since: 10 points claimed, 10 pending, and a claim is due.
C21_Witness ==
    \E d \in Dapps :
        /\ thurinPoints.dappPoints[d] = 10
        /\ thurinPoints.claimedVerifications[d] = 1
        /\ verifier.dappVerificationCount[d] = 2
        /\ pendingDappPoints(thurinPoints, verifier, d) = 10
        /\ claimDappPoints(thurinPoints, verifier, d).st = "ok"

\* The elements of a sequence.
Range(seq) == {seq[i] : i \in DOMAIN seq}

\* C22: getTopDapps(limit) returns min(limit, number of registered
\* dApps, 100) entries: distinct registered dApps with the highest
\* verification counts, in non-increasing order of count, each paired with
\* its own verification count.
C22_TopDappsRanked ==
    topCall.st = "ok" =>
        LET c == topCall.val
            n == Min(Min(c.limit, Len(c.registeredDapps)), 100)
            dapps == c.out.dapps
            verifications == c.out.verifications
        IN  /\ Len(dapps) = n
            /\ Len(verifications) = n
            /\ \A i, j \in 1..n : dapps[i] = dapps[j] => i = j
            /\ Range(dapps) \subseteq Range(c.registeredDapps)
            /\ \A i \in 1..n : verifications[i] = c.counts[dapps[i]]
            /\ \A i, j \in 1..n : i < j => verifications[i] >= verifications[j]
            /\ \A d \in Range(c.registeredDapps) \ Range(dapps) :
                   \A i \in 1..n : c.counts[d] <= c.counts[dapps[i]]

(***************************************************************************)
(* Properties of the prover's state                                        *)
(***************************************************************************)
\* C23: isProverInitialized() is false at the start, true after every
\* initProver, false after every destroyProver and changed by nothing
\* else, so it is true exactly when the last of these calls was an
\* initProver; and generateProof rejects with 'Prover not initialized'
\* exactly when isProverInitialized() is false.
C23_InitializedAfterInit ==
    /\ ~isProverInitialized
    /\ [][/\ InitProver => isProverInitialized'
          /\ DestroyProver => ~isProverInitialized'
          /\ ~InitProver /\ ~DestroyProver => (isProverInitialized' <=> isProverInitialized)
          /\ GenerateProof
                 => (proof' = Err("Prover not initialized") <=> ~isProverInitialized)]_vars

\* No prover is initialized, and a generateProof with a usable
\* credential was rejected with 'Prover not initialized'.
C23_Witness ==
    /\ ~isProverInitialized
    /\ barretenbergAPI = "null"
    /\ currentCircuit = "null"
    /\ proof = Err("Prover not initialized")
    /\ credential.st = "ok"

(***************************************************************************)
(* Properties of tiers, points and dates in ThurinSBT                      *)
(***************************************************************************)
\* C24: the tier recorded for a token is the tier that was current when
\* its mint was called: OG for ids 0-499, KindaCool for ids 500-1499 and
\* Standard for later ones.
C24_TierAsCharged ==
    tierCall.st = "ok" =>
        LET c == tierCall.val
        IN  /\ c.tokenTier = c.tierAtCall
            /\ c.tokenId <= 499 => c.tokenTier = "OG"
            /\ (500 <= c.tokenId /\ c.tokenId <= 1499) => c.tokenTier = "KindaCool"
            /\ c.tokenId >= 1500 => c.tokenTier = "Standard"

\* Whether a mint by sender naming referrerTokenId names a token that
\* exists when mint is called and belongs to another address.
NamesOthersToken(sender, referrerTokenId) ==
    /\ referrerTokenId # NO_REFERRER
    /\ ownerOfToken(sbt, referrerTokenId) \notin {ZERO_ADDRESS, sender}

\* The tokens whose mint credited a referral to address a.
ReferredBy(a) == {u \in TokenIds : a # ZERO_ADDRESS /\ sbt.referredBy[u] = a}

NearProofs(ts) ==
    {[GoodProof(n, ts) EXCEPT !.proofDate = timestampToYYYYMMDD(ts + k * DAY)] :
         n \in Nullifiers, k \in -1..1}
DateErrors == {"ProofDateTooOld", "ProofDateFromFuture"}

\* C26: mint, renew and verify never reject, with ProofDateTooOld or
\* ProofDateFromFuture, a proof whose proofDate is the contract's own
\* date for block.timestamp - 1 day, block.timestamp or
\* block.timestamp + 1 day.
C26_NearDatesAccepted ==
    \A p \in NearProofs(blockTimestamp) :
        /\ \A sender \in Addresses : \A c \in MintCalls(sender, blockTimestamp) :
               LET r == MintResult(sender, [c EXCEPT !.p = p])
               IN  r.st = "revert" => r.err \notin DateErrors
        /\ \A sender \in Addresses : \A c \in RenewCalls(blockTimestamp) :
               LET r == RenewResult(sender, [c EXCEPT !.p = p])
               IN  r.st = "revert" => r.err \notin DateErrors
        /\ \A d \in Dapps, user \in Addresses :
               LET r == VerifyResult(d, user, p)
               IN  r.st = "revert" => r.err \notin DateErrors
\* The UTC calendar date of a timestamp as YYYYMMDD, by the proleptic
\* Gregorian calendar (days counted in 400-year eras from 0000-03-01).
utcDate(timestamp) ==
    LET z == (timestamp \div DAY) + 719468
        era == z \div 146097
        doe == z - era * 146097
        yoe == (doe - (doe \div 1460) + (doe \div 36524) - (doe \div 146096)) \div 365
        doy == doe - (365 * yoe + (yoe \div 4) - (yoe \div 100))
        mp == (5 * doy + 2) \div 153
        d == doy - ((153 * mp + 2) \div 5) + 1
        m == IF mp < 10 THEN mp + 3 ELSE mp - 9
        y == yoe + era * 400 + (IF m <= 2 THEN 1 ELSE 0)
    IN  y * 10000 + m * 100 + d

\* By how many days a date returned for timestamp differs from the true
\* date: the least k for which the day k days before or after timestamp
\* has that date (MaxDaysOff + 1 when no day that near has it).
MaxDaysOff == 40
DaysOff(timestamp, date) ==
    LET near == {k \in 0..MaxDaysOff :
                     \/ utcDate(timestamp + k * DAY) = date
                     \/ utcDate(timestamp - k * DAY) = date}
    IN  IF near = {} THEN MaxDaysOff + 1
        ELSE CHOOSE k \in near : \A j \in near : k <= j

\* Whether timestamp lies within a week of a 1 January, 00:00 UTC.
NearYearBoundary(timestamp) ==
    \E k \in -7..6 : utcDate(timestamp + k * DAY) % 10000 = 101

\* C27: for every timestamp from 2020-01-01 on, the date returned by
\* _timestampToYYYYMMDD is at most about one day (here: at most two
\* days) from the true UTC date of the timestamp, and differs from it
\* only near a year boundary.
C27_DateAboutRight ==
    dateCall # None
        => LET off == DaysOff(dateCall.val.timestamp, dateCall.val.date)
           IN  /\ off <= 2
               /\ off # 0 => NearYearBoundary(dateCall.val.timestamp)
\* C28: ThurinVerifier.verify succeeds only for a proof whose iacaRoot
\* is trusted in ThurinSBT at the time of the call; after
\* removeIACARoot(r) no verify with root r succeeds.
C28_VerifyNeedsTrustedRoot ==
    \A d \in Dapps, user \in Addresses : \A p \in ProofArgs(blockTimestamp) :
        VerifyResult(d, user, p).st = "ok" => p.iacaRoot \in sbt.trustedIACARoots
\* C29: a proof is counted at most once: when verify has succeeded for
\* a dApp with a proof (one nullifier and eventId), the same dApp
\* submitting the same proof again for the same user does not raise
\* dappVerificationCount[d] or the points d can claim.
C29_ProofCountedOnce ==
    \A d \in Dapps, user \in Addresses : \A p \in ProofArgs(blockTimestamp) :
        LET first == VerifyResult(d, user, p)
        IN  first.st = "ok"
                => LET again == verify(first.store, sbt, d, user, p, blockTimestamp)
                   IN  again.st = "ok"
                           => /\ again.store.dappVerificationCount[d]
                                     = first.store.dappVerificationCount[d]
                              /\ pendingDappPoints(thurinPoints, again.store, d)
                                     = pendingDappPoints(thurinPoints, first.store, d)
\* Whether, in storage s, userTokenId[a] is the id of the token a owns
\* for every address a that holds an SBT.
UserTokenIdIsOwn(s) ==
    \A a \in Addresses : balanceOf(s, a) > 0 => ownerOfToken(s, s.userTokenId[a]) = a

\* C30: whenever an address a holds an SBT, userTokenId[a] is the id of
\* the token a owns: between transactions, and in the storage that the
\* receiver callback of _safeMint runs in when a contract mints; so
\* isValid, getExpiry and renew use only the caller's own token.
C30_UserTokenIdIsOwn ==
    /\ UserTokenIdIsOwn(sbt)
    /\ \A sender \in ReceiverContracts : \A c \in MintCalls(sender, blockTimestamp) :
           LET atCallback == safeMint(sbt, sender, c.p)
           IN  /\ PassesEarlierChecks(sender, c)
               /\ c.p.nullifier \notin sbt.nullifierUsed
               /\ c.p.proofOk
               /\ atCallback.st = "ok"
               => UserTokenIdIsOwn(atCallback.store)
====
